---- MODULE Spec2Model ----
(***************************************************************************)
(* A model of the browser session supervisor of playwrightauthor:          *)
(*   - connection.py   : connect_with_retry / async_connect_with_retry     *)
(*   - monitoring.py   : BrowserMonitor / AsyncBrowserMonitor              *)
(*   - author.py       : Browser / AsyncBrowser crash handling             *)
(*   - browser_manager.py, browser/process.py, browser/launcher.py,        *)
(*     browser/finder.py : ensure_browser and what it calls                *)
(*   - state_manager.py: StateManager                                      *)
(* Each subsystem has its own specification (SpecConnect, SpecMonitor,     *)
(* SpecEnsure, SpecStore); the variables of the other subsystems stay at   *)
(* their initial values. ensure_browser caches the path it finds, so       *)
(* SpecEnsure moves the state file too.                                    *)
(***************************************************************************)
EXTENDS Integers, Sequences, FiniteSets, TLC

VARIABLES
    conn,       \* the frame of one connect_with_retry / async_connect_with_retry call
    cfg,        \* config.monitoring of the session, and whether it is Browser or AsyncBrowser
    session,    \* the Browser / AsyncBrowser object: main-thread position, _restart_count, monitor
    monitors,   \* the BrowserMonitor / AsyncBrowserMonitor objects the session has created
    chrome_pid, \* pid of the live browser process on the debug port, 0 when there is none
    next_pid,   \* the pid the next launched browser process gets
    stats,      \* history counters: crashes detected, on_crash calls, restart attempts
    state_file, \* content of browser_state.json
    tmp_file,   \* content of browser_state.tmp
    files,      \* the file system at the paths a browser binary can be at
    now,        \* the clock behind datetime.now()
    store,      \* the StateManager client: position inside save_state, last operation
    procs,      \* the operating system's process table: pid -> process
    ens,        \* the ensure_browser caller: position inside the call, its record
    other,      \* a second ensure_browser caller, in another session, while it does not run
    poll,       \* the frame of one wait_for_process_start / wait_for_cdp_available call
    saves,      \* browser_state.json and browser_state.tmp as inodes, and the save_state callers
    instance,   \* one BrowserMonitor / AsyncBrowserMonitor object, its owner and its loops
    install     \* the install_from_lkgv caller and chrome.zip in the install directory

monVars == <<cfg, session, monitors, chrome_pid, next_pid, stats>>
storeVars == <<state_file, tmp_file, files, now, store>>
ensVars == <<procs, ens, other>>

\* What the actions of one subsystem leave alone
sideVars == <<saves, instance, install>>
restOfConn == <<monVars, storeVars, ensVars, poll, sideVars>>
restOfMon == <<conn, storeVars, ensVars, poll, sideVars>>
restOfStore == <<conn, monVars, ensVars, poll, sideVars>>
restOfEns == <<conn, monVars, other, poll, sideVars>>
restOfSide == <<conn, monVars, storeVars, ensVars, poll>>
vars == <<conn, cfg, session, monitors, chrome_pid, next_pid, stats,
          state_file, tmp_file, files, now, store, procs, ens, other, poll, sideVars>>

(***************************************************************************)
(* Bounds of the model (not program constants).                            *)
(***************************************************************************)
MaxRetriesBound == 3     \* max_retries is drawn from 0..MaxRetriesBound
MaxRetryDelay == 2       \* retry_delay is drawn from 1..MaxRetryDelay
MaxRestartCap == 2       \* max_restart_attempts is drawn from 0..MaxRestartCap
MaxDetections == 4       \* crash detections (runs of _handle_crash) explored per session
MaxClock == 2            \* state writes explored: the clock ticks at every save_state
MaxLaunchRetries == 2    \* largest max_retries given to ensure_browser
MaxCalls == 2            \* ensure_browser calls made one after the other
WaitStep == 5            \* seconds between two looks at the clock of a wait
MaxTimeout == 3          \* largest timeout of a polling wait, in rounds of the loop
NumWriters == 2          \* save_state calls that overlap on one state file
DocChunks == 2           \* write() calls that one json.dump of a state is flushed in
MaxThreads == 2          \* threads or tasks that one monitor object starts in a run

(***************************************************************************)
(*                    connection.py : connect_with_retry                   *)
(***************************************************************************)

\* What one request to /json/version can report (get_connection_diagnostics):
\* "ok" is HTTP 200; the others are the error text classes that
\* connect_with_retry tells apart ("refused" / "timeout" in the text, or neither).
HealthOutcomes == {"ok", "refused", "timeout", "other"}

\* What playwright_browser.connect_over_cdp(url) can do: return a browser, or
\* raise with a text that names connect_over_cdp, a timeout, or neither.
AttachOutcomes == {"ok", "cdp_error", "timeout_error", "other_error"}

Flavors == {"sync", "async"}

\* An exception as the caller gets it: its class, its message, and the
\* exception chained to it as its cause ("none": no chained exception).
NoError == [kind |-> "none", msg |-> "none", cause |-> "none"]

\* PAConnectionError(error_msg), as connect_with_retry builds it: a new
\* exception with that message and nothing chained to it
PAConnectionError(msg) == [kind |-> "ConnectionError", msg |-> msg, cause |-> "none"]

\* What requests.get(f"{base_url}/json/version", timeout=5.0) can give: a
\* response with a status and a body that is JSON or not, or a
\* requests.RequestException with a text.
HttpResponse(status, body) ==
    [answered |-> TRUE, status |-> status, body |-> body, failure |-> "none"]
RequestFailure(text) ==
    [answered |-> FALSE, status |-> 0, body |-> "none", failure |-> text]

Answers ==
    {HttpResponse(200, "json"), HttpResponse(200, "text"), HttpResponse(404, "text"),
     RequestFailure("refused"), RequestFailure("timeout")}

\* The class of the error response.json() raises for a body that is not
\* JSON: requests.exceptions.JSONDecodeError, a RequestException, in the
\* requests releases that have it; a plain ValueError in the older ones.
JsonErrorClasses == {"RequestException", "ValueError"}

\* The dict get_connection_diagnostics starts from
NoDiagnostics ==
    [cdp_available |-> FALSE, browser_info |-> "none", error |-> "none", raised |-> FALSE]

\* get_connection_diagnostics() for the answer of the request. raised: the
\* call ends with an exception and returns no dict.
get_connection_diagnostics(ans, json_error_class) ==
    IF ~ans.answered
    THEN [NoDiagnostics EXCEPT !.error = ans.failure]
    ELSE IF ans.status = 200
    THEN LET d == [NoDiagnostics EXCEPT !.cdp_available = TRUE] IN
         IF ans.body = "json" THEN [d EXCEPT !.browser_info = "json"]
         ELSE IF json_error_class = "RequestException"
         THEN [d EXCEPT !.error = "not_json"]
         ELSE [d EXCEPT !.raised = TRUE]
    ELSE [NoDiagnostics EXCEPT !.error = "http_status"]

\* A mutant of check_connection_health: every port counts as healthy
check_connection_health_always(h) == TRUE

\* check_connection_health: is_healthy = diagnostics["cdp_available"]
check_connection_health(h) == h = "ok"

\* The message of the PAConnectionError built in the `if not is_healthy` branch.
UnhealthyMsg(h) ==
    IF h = "refused" THEN "cannot_connect_refused"
    ELSE IF h = "timeout" THEN "cannot_connect_timeout"
    ELSE "cannot_connect"

\* The message built by `except Exception as e` from str(e):
\* "connect_over_cdp" in str(e), else "timeout" in str(e).lower(), else the text.
\* A PAConnectionError re-raised by the final unhealthy attempt is caught here
\* too: its text holds "timeout" exactly when the health error did.
WrappedMsg(text) ==
    IF text = "cdp_error" THEN "failed_playwright"
    ELSE IF text \in {"timeout_error", "cannot_connect_timeout"} THEN "failed_timed_out"
    ELSE IF text = "cannot_connect_refused" THEN "failed_wrapping_cannot_connect_refused"
    ELSE IF text = "cannot_connect" THEN "failed_wrapping_cannot_connect"
    ELSE "failed_other"

\* A mutant of AttemptRange: range(max_retries), one attempt too few.
AttemptRangeShort(mr) == 0 .. (mr - 1)

\* `for attempt in range(max_retries + 1)`
AttemptRange(mr) == 0 .. mr

\* A mutant of Backoff: the wait grows linearly
BackoffLinear(rd, attempt) == rd * (attempt + 1)

\* `time.sleep(retry_delay * (2**attempt))`
Backoff(rd, attempt) == rd * (2 ^ attempt)

\* One iteration of the for loop of connect_with_retry, for the health outcome h
\* and (when the port is healthy) the attach outcome a.  The iteration after
\* the last one is the `raise last_error or PAConnectionError(...)` after the loop.
connect_with_retry_step(c, h, a) ==
    IF c.attempt \notin AttemptRange(c.max_retries)
    THEN \* loop over (or never entered): raise last_error or the generic error
         [c EXCEPT !.pc = "raised",
                   !.last_error = IF c.last_error = NoError
                                  THEN PAConnectionError("failed_after_attempts")
                                  ELSE c.last_error]
    ELSE
    LET c1 == [c EXCEPT !.health_log = Append(@, h)] IN
    IF ~check_connection_health(h)
    THEN IF c.attempt < c.max_retries
         THEN \* sleep and continue
              [c1 EXCEPT !.last_error = PAConnectionError(UnhealthyMsg(h)),
                         !.sleeps = Append(@, Backoff(c.retry_delay, c.attempt)),
                         !.attempt = @ + 1]
         ELSE \* `raise last_error` inside the try: caught by `except Exception`,
              \* wrapped again, and the loop is left by `break`
              [c1 EXCEPT !.last_error = PAConnectionError(WrappedMsg(UnhealthyMsg(h))),
                         !.pc = "raised"]
    ELSE
    LET c2 == [c1 EXCEPT !.attach_log = Append(@, a)] IN
    IF a = "ok"
    THEN [c2 EXCEPT !.pc = "returned"]
    ELSE IF c.attempt < c.max_retries
         THEN [c2 EXCEPT !.last_error = PAConnectionError(WrappedMsg(a)),
                         !.sleeps = Append(@, Backoff(c.retry_delay, c.attempt)),
                         !.attempt = @ + 1]
         ELSE [c2 EXCEPT !.last_error = PAConnectionError(WrappedMsg(a)),
                         !.pc = "raised"]

\* A mutant of async_connect_with_retry_step: the waits are left out
async_connect_without_backoff_step(c, h, a) ==
    [connect_with_retry_step(c, h, a) EXCEPT !.sleeps = c.sleeps]

\* The same iteration of async_connect_with_retry (asyncio.sleep for time.sleep,
\* `await connect_over_cdp`).
async_connect_with_retry_step(c, h, a) ==
    IF c.attempt \notin AttemptRange(c.max_retries)
    THEN [c EXCEPT !.pc = "raised",
                   !.last_error = IF c.last_error = NoError
                                  THEN PAConnectionError("failed_after_attempts")
                                  ELSE c.last_error]
    ELSE
    LET c1 == [c EXCEPT !.health_log = Append(@, h)] IN
    IF ~check_connection_health(h)
    THEN IF c.attempt < c.max_retries
         THEN [c1 EXCEPT !.last_error = PAConnectionError(UnhealthyMsg(h)),
                         !.sleeps = Append(@, Backoff(c.retry_delay, c.attempt)),
                         !.attempt = @ + 1]
         ELSE [c1 EXCEPT !.last_error = PAConnectionError(WrappedMsg(UnhealthyMsg(h))),
                         !.pc = "raised"]
    ELSE
    LET c2 == [c1 EXCEPT !.attach_log = Append(@, a)] IN
    IF a = "ok"
    THEN [c2 EXCEPT !.pc = "returned"]
    ELSE IF c.attempt < c.max_retries
         THEN [c2 EXCEPT !.last_error = PAConnectionError(WrappedMsg(a)),
                         !.sleeps = Append(@, Backoff(c.retry_delay, c.attempt)),
                         !.attempt = @ + 1]
         ELSE [c2 EXCEPT !.last_error = PAConnectionError(WrappedMsg(a)),
                         !.pc = "raised"]

\* The frame at the call: last_error = None, the loop not yet entered.
ConnFrame(f, mr, rd) ==
    [flavor |-> f, max_retries |-> mr, retry_delay |-> rd, attempt |-> 0,
     pc |-> "loop", last_error |-> NoError,
     health_log |-> <<>>, attach_log |-> <<>>, sleeps |-> <<>>]

ConnIdle == [ConnFrame("sync", 0, 1) EXCEPT !.pc = "idle"]

ConnInit ==
    \E f \in Flavors, mr \in 0 .. MaxRetriesBound, rd \in 1 .. MaxRetryDelay :
        conn = ConnFrame(f, mr, rd)

\* connect_with_retry runs one iteration
ConnectAttempt ==
    /\ conn.pc = "loop"
    /\ conn.flavor = "sync"
    /\ \E h \in HealthOutcomes, a \in AttachOutcomes :
           conn' = connect_with_retry_step(conn, h, a)
    /\ UNCHANGED restOfConn

\* async_connect_with_retry runs one iteration
AsyncConnectAttempt ==
    /\ conn.pc = "loop"
    /\ conn.flavor = "async"
    /\ \E h \in HealthOutcomes, a \in AttachOutcomes :
           conn' = async_connect_with_retry_step(conn, h, a)
    /\ UNCHANGED restOfConn

ConnNext == ConnectAttempt \/ AsyncConnectAttempt



(***************************************************************************)
(*   process.py    : wait_for_process_start                                *)
(*   connection.py : ConnectionHealthChecker.wait_for_cdp_available        *)
(***************************************************************************)

\* The two polling waits have the same loop: look at the clock, probe, sleep
\* check_interval.  wait_for_process_start probes with get_chrome_process and
\* raises TimeoutError at the deadline; wait_for_cdp_available probes with
\* is_cdp_available and returns False at the deadline.

\* The clock of a wait is read up to this value; a wait is over before it.
ClockCap == MaxTimeout + 1

PollFrame(op, timeout) ==
    [op |-> op, timeout |-> timeout, elapsed |-> 0, pc |-> "test",
     probes |-> 0, result |-> "none"]

NoPoll == [PollFrame("wait_for_process_start", 0) EXCEPT !.pc = "idle"]

\* A mutant of PollGoesOn: the deadline is not looked at
PollGoesOnAlways(elapsed, timeout) == TRUE

\* `while (time.time() - start_time) < timeout`
PollGoesOn(elapsed, timeout) == elapsed < timeout

PollInit ==
    \E op \in {"wait_for_process_start", "wait_for_cdp_available"}, timeout \in 0 .. MaxTimeout : poll = PollFrame(op, timeout)

\* The loop test: the body is entered, or the loop is over and the function
\* returns False (raises TimeoutError)
PollTest ==
    /\ poll.pc = "test"
    /\ poll' = IF PollGoesOn(poll.elapsed, poll.timeout)
               THEN [poll EXCEPT !.pc = "probe"]
               ELSE [poll EXCEPT !.pc = "done",
                                 !.result = IF poll.op = "wait_for_process_start"
                                            THEN "TimeoutError" ELSE "False"]
    /\ UNCHANGED <<conn, monVars, storeVars, ensVars, sideVars>>

\* get_chrome_process(port) / self.is_cdp_available() returns: found, and the
\* function returns; or not found
PollProbe ==
    /\ poll.pc = "probe"
    /\ \E found \in BOOLEAN :
          LET probed == [poll EXCEPT !.probes = IF @ < ClockCap THEN @ + 1 ELSE @] IN
          poll' = IF found
                  THEN [probed EXCEPT !.pc = "done",
                                      !.result = IF poll.op = "wait_for_process_start"
                                                 THEN "proc" ELSE "True"]
                  ELSE [probed EXCEPT !.pc = "sleep"]
    /\ UNCHANGED <<conn, monVars, storeVars, ensVars, sideVars>>

\* time.sleep(check_interval) returns; the round of the loop has taken d
\* units of the clock
PollSleep ==
    /\ poll.pc = "sleep"
    /\ \E d \in 1 .. 2 :
          poll' = [poll EXCEPT !.pc = "test",
                               !.elapsed = IF @ + d > ClockCap THEN ClockCap ELSE @ + d]
    /\ UNCHANGED <<conn, monVars, storeVars, ensVars, sideVars>>

PollNext == PollTest \/ PollProbe \/ PollSleep

(***************************************************************************)
(*        monitoring.py : BrowserMonitor / AsyncBrowserMonitor             *)
(*        author.py     : Browser / AsyncBrowser crash handling            *)
(***************************************************************************)

\* A session creates one monitor at entry and one more per successful restart,
\* and a restart needs _restart_count < max_restart_attempts.
MonitorIds == 1 .. (MaxRestartCap + 1)

\* BrowserMonitor.__init__: not monitoring, no thread, no pid.
\* loop is the position of the monitor's background thread / task:
\*   "unstarted"  no thread or task yet
\*   "top"        about to test `while self._monitoring`
\*   "health"     in _perform_health_check, the request to /json/version in flight
\*   "restarting" in on_crash (Browser._handle_browser_crash), inside
\*                ensure_browser / connect_with_retry
\*   "sleep"      in time.sleep(check_interval) / asyncio.sleep(check_interval)
\*   "finished"   _monitor_loop has returned
\* stop_returned records that a stop_monitoring call on this monitor that
\* found it monitoring has returned.
\* answer and diagnostics are the answer to the request of the last health
\* check and what get_connection_diagnostics made of it.
NewMonitor ==
    [_monitoring |-> FALSE, _browser_pid |-> 0, loop |-> "unstarted",
     crash_count |-> 0, stop_returned |-> FALSE,
     answer |-> RequestFailure("none"), diagnostics |-> NoDiagnostics]

\* start_monitoring(browser_pid) on a fresh monitor
start_monitoring(mon, pid) ==
    IF mon._monitoring THEN mon
    ELSE [mon EXCEPT !._monitoring = TRUE, !._browser_pid = pid, !.loop = "top"]

\* the lowest monitor id not yet used: the object _start_monitoring creates
FreshMonitor == CHOOSE k \in MonitorIds :
                    /\ monitors[k].loop = "unstarted"
                    /\ \A j \in MonitorIds : j < k => monitors[j].loop # "unstarted"

HasFreshMonitor == \E k \in MonitorIds : monitors[k].loop = "unstarted"

\* A mutant of _is_process_alive: no process is found
_is_process_alive_never(pid) == FALSE

\* _is_process_alive(pid): pids are not reused in the model
_is_process_alive(pid) == pid # 0 /\ pid = chrome_pid

\* A mutant of RecoveryEnabled: the setting is not read
RecoveryAlwaysEnabled(config) == TRUE

\* _handle_browser_crash: `if not self.config.monitoring.enable_crash_recovery: return`
RecoveryEnabled(config) == config.enable_crash_recovery

\* A mutant of RestartCountAfterFailure: the count starts again
RestartCountReset(config) == 0

\* _handle_browser_crash, except branch:
\* `self._restart_count = self.config.monitoring.max_restart_attempts`
RestartCountAfterFailure(config) == config.max_restart_attempts

\* A mutant of RestartAllowed: the cap is tested with > instead of >=
RestartAllowedOffByOne(count) ==
    /\ cfg.enable_crash_recovery
    /\ ~(count > cfg.max_restart_attempts)

\* _handle_browser_crash: the two early returns before `self._restart_count += 1`
RestartAllowed(count) ==
    /\ RecoveryEnabled(cfg)
    /\ ~(count >= cfg.max_restart_attempts)

MonIdle ==
    /\ cfg = [flavor |-> "sync", enable_crash_recovery |-> TRUE, max_restart_attempts |-> 0]
    /\ session = [pc |-> "closed", _restart_count |-> 0, monitor |-> 0, reattached |-> 0,
                  attaches |-> 0, last_used_writes |-> 0, playwright |-> "none", joined |-> 0]
    /\ monitors = [k \in MonitorIds |-> NewMonitor]
    /\ chrome_pid = 0
    /\ next_pid = 1
    /\ stats = [crashes_detected |-> 0, on_crash_calls |-> 0, restart_attempts |-> 0]

\* The state after Browser.__enter__ / AsyncBrowser.__aenter__ with
\* monitoring.enabled: the browser runs as pid 1, _restart_count = 0, and
\* _start_monitoring has created monitor 1 and started it on that pid.
\* connect_with_retry has returned once (attaches) and set_profile has saved
\* the profile with its new last_used once (last_used_writes); the Playwright
\* driver that sync_playwright.start() started runs (playwright).
MonInit ==
    /\ \E f \in Flavors, r \in BOOLEAN, m \in 0 .. MaxRestartCap :
          cfg = [flavor |-> f, enable_crash_recovery |-> r, max_restart_attempts |-> m]
    /\ session = [pc |-> "body", _restart_count |-> 0, monitor |-> 1, reattached |-> 0,
                  attaches |-> 1, last_used_writes |-> 1, playwright |-> "running", joined |-> 0]
    /\ monitors = [k \in MonitorIds |->
                      IF k = 1 THEN start_monitoring(NewMonitor, 1) ELSE NewMonitor]
    /\ chrome_pid = 1
    /\ next_pid = 2
    /\ stats = [crashes_detected |-> 0, on_crash_calls |-> 0, restart_attempts |-> 0]

\* The environment: the browser process dies.
BrowserCrash ==
    /\ chrome_pid # 0
    /\ chrome_pid' = 0
    /\ UNCHANGED <<cfg, session, monitors, next_pid, stats>>
    /\ UNCHANGED restOfMon

\* _monitor_loop: the test of `while self._monitoring`; a true test enters
\* _perform_health_check and sends the request.
LoopTop(m) ==
    /\ monitors[m].loop = "top"
    /\ stats.crashes_detected < MaxDetections \/ ~monitors[m]._monitoring
    /\ monitors' = [monitors EXCEPT ![m].loop =
                       IF monitors[m]._monitoring THEN "health" ELSE "finished"]
    /\ UNCHANGED <<cfg, session, chrome_pid, next_pid, stats>>
    /\ UNCHANGED restOfMon

\* _perform_health_check from the answer of the request on. A JSON answer
\* of /json/version needs a running browser. When get_connection_diagnostics
\* raises, the exception ends the cycle in the `except Exception` of
\* _monitor_loop. Healthy, or unhealthy with no pid or with the process
\* alive, end the cycle; unhealthy with the process gone runs _handle_crash,
\* which counts the crash and calls on_crash, that is _handle_browser_crash up
\* to its call of ensure_browser.
HealthResult(m) ==
    /\ monitors[m].loop = "health"
    /\ \E ans \in Answers, json_error_class \in JsonErrorClasses :
          /\ (ans.status = 200 /\ ans.body = "json") => chrome_pid # 0
          /\ LET d == get_connection_diagnostics(ans, json_error_class)
                 mon == [monitors[m] EXCEPT !.answer = ans, !.diagnostics = d]
             IN IF d.raised \/ d.cdp_available \/ mon._browser_pid = 0
                   \/ _is_process_alive(mon._browser_pid)
                THEN /\ monitors' = [monitors EXCEPT ![m] = [mon EXCEPT !.loop = "sleep"]]
                     /\ UNCHANGED <<session, stats>>
                ELSE LET go == RestartAllowed(session._restart_count) IN
                     /\ monitors' = [monitors EXCEPT ![m] =
                            [mon EXCEPT
                               !.crash_count = @ + 1,
                               !.loop = IF go THEN "restarting" ELSE "sleep"]]
                     /\ session' = [session EXCEPT !._restart_count = IF go THEN @ + 1 ELSE @]
                     /\ stats' = [stats EXCEPT
                            !.crashes_detected = @ + 1,
                            !.on_crash_calls = @ + 1,
                            !.restart_attempts = IF go THEN @ + 1 ELSE @]
    /\ UNCHANGED <<cfg, chrome_pid, next_pid>>
    /\ UNCHANGED restOfMon

\* ensure_browser as the crash handler sees it: it launches a browser when
\* none is running on the debug port.
LaunchedPid == IF chrome_pid = 0 THEN next_pid ELSE chrome_pid
NextPidAfterLaunch == IF chrome_pid = 0 THEN next_pid + 1 ELSE next_pid

\* _handle_browser_crash: ensure_browser or the re-attach raises; the except
\* branch sets _restart_count to the cap and the loop goes on to its sleep.
RestartFails(m) ==
    /\ monitors[m].loop = "restarting"
    /\ \E launched \in BOOLEAN :
          /\ chrome_pid' = IF launched THEN LaunchedPid ELSE chrome_pid
          /\ next_pid' = IF launched THEN NextPidAfterLaunch ELSE next_pid
    /\ session' = [session EXCEPT !._restart_count = RestartCountAfterFailure(cfg)]
    /\ monitors' = [monitors EXCEPT ![m].loop = "sleep"]
    /\ UNCHANGED <<cfg, stats>>
    /\ UNCHANGED restOfMon

\* _handle_browser_crash: ensure_browser and the re-attach succeed, then
\* `self.monitor.stop_monitoring(); self._start_monitoring()` run on the
\* monitor's own thread / task.
\*   stop_monitoring returns at once when self.monitor is not monitoring (the
\*   main thread has called stop meanwhile).
\*   Browser: Thread.join on the current thread raises RuntimeError after
\*   _monitoring was cleared; the except branch sets _restart_count to the cap
\*   and no new monitor is started.
\*   AsyncBrowser: the task cancels and awaits itself, stop_monitoring catches
\*   the CancelledError and returns; _start_monitoring creates the next monitor.
\* _start_monitoring reads the pid with get_chrome_process(debug_port): None
\* when the new process is already gone.
\* session.reattached keeps the pid of the browser the re-attach was made to;
\* the handler calls neither get_profile nor set_profile.
RestartSucceeds(m) ==
    /\ monitors[m].loop = "restarting"
    /\ HasFreshMonitor
    /\ LET cur == session.monitor
           selfJoin == cfg.flavor = "sync" /\ cur = m /\ monitors[cur]._monitoring
           stopped == [monitors EXCEPT
                          ![cur]._monitoring = FALSE,
                          ![cur].stop_returned = IF monitors[cur]._monitoring /\ ~selfJoin
                                                 THEN TRUE ELSE @,
                          ![m].loop = "sleep"]
       IN \E gone \in BOOLEAN :
          /\ chrome_pid' = IF gone THEN 0 ELSE LaunchedPid
          /\ next_pid' = NextPidAfterLaunch
          /\ IF selfJoin
             THEN /\ monitors' = stopped
                  /\ session' = [session EXCEPT !._restart_count = RestartCountAfterFailure(cfg),
                                                 !.reattached = LaunchedPid,
                                                 !.attaches = @ + 1]
             ELSE /\ monitors' = [stopped EXCEPT ![FreshMonitor] =
                                     start_monitoring(NewMonitor, chrome_pid')]
                  /\ session' = [session EXCEPT !.monitor = FreshMonitor,
                                                 !.reattached = LaunchedPid,
                                                 !.attaches = @ + 1]
    /\ UNCHANGED <<cfg, stats>>
    /\ UNCHANGED restOfMon

\* time.sleep(check_interval) / asyncio.sleep(check_interval) returns
Sleep(m) ==
    /\ monitors[m].loop = "sleep"
    /\ monitors' = [monitors EXCEPT ![m].loop = "top"]
    /\ UNCHANGED <<cfg, session, chrome_pid, next_pid, stats>>
    /\ UNCHANGED restOfMon

\* Browser.__exit__ / AsyncBrowser.__aexit__ after stop_monitoring returned:
\* browser.close() and playwright.stop(), and the with block is over
ExitCleanup(sess) == [sess EXCEPT !.pc = "closed", !.playwright = "stopped"]

\* Browser.__exit__ calls BrowserMonitor.stop_monitoring: the early return when
\* not monitoring, else `self._monitoring = False` and the start of
\* `self._monitor_thread.join(timeout=5.0)`.
StopMonitoringSync ==
    /\ cfg.flavor = "sync"
    /\ session.pc = "body"
    /\ LET m == session.monitor IN
       IF monitors[m]._monitoring
       THEN /\ monitors' = [monitors EXCEPT ![m]._monitoring = FALSE]
            /\ session' = [session EXCEPT !.pc = "joining", !.joined = m]
       ELSE /\ session' = ExitCleanup(session)
            /\ UNCHANGED monitors
    /\ UNCHANGED <<cfg, chrome_pid, next_pid, stats>>
    /\ UNCHANGED restOfMon

\* join(timeout=5.0) returns because the thread has ended, and stop_monitoring returns
JoinThreadEnded ==
    /\ session.pc = "joining"
    /\ monitors[session.joined].loop = "finished"
    /\ monitors' = [monitors EXCEPT ![session.joined].stop_returned = TRUE]
    /\ session' = ExitCleanup(session)
    /\ UNCHANGED <<cfg, chrome_pid, next_pid, stats>>
    /\ UNCHANGED restOfMon

\* join(timeout=5.0) returns because 5 seconds have passed while the thread is
\* still in its sleep of check_interval seconds, in the request of a health
\* check or in the crash handler; stop_monitoring returns all the same.
JoinTimedOut ==
    /\ session.pc = "joining"
    /\ monitors[session.joined].loop \in {"health", "restarting", "sleep"}
    /\ monitors' = [monitors EXCEPT ![session.joined].stop_returned = TRUE]
    /\ session' = ExitCleanup(session)
    /\ UNCHANGED <<cfg, chrome_pid, next_pid, stats>>
    /\ UNCHANGED restOfMon

\* AsyncBrowser.__aexit__ calls AsyncBrowserMonitor.stop_monitoring: the early
\* return when not monitoring, else `self._monitoring = False`,
\* `self._monitor_task.cancel()` and `await self._monitor_task`.  The task is
\* suspended at an await (the executor call of the health check, the sleep, an
\* await of the crash handler) or has not run yet; CancelledError is raised
\* there, passes every `except Exception` and ends _monitor_loop by `break`;
\* then the await, and stop_monitoring, return.
StopMonitoringAsync ==
    /\ cfg.flavor = "async"
    /\ session.pc = "body"
    /\ LET m == session.monitor IN
       IF monitors[m]._monitoring
       THEN monitors' = [monitors EXCEPT ![m]._monitoring = FALSE,
                                         ![m].loop = "finished",
                                         ![m].stop_returned = TRUE]
       ELSE UNCHANGED monitors
    /\ session' = ExitCleanup(session)
    /\ UNCHANGED <<cfg, chrome_pid, next_pid, stats>>
    /\ UNCHANGED restOfMon

\* A Browser / AsyncBrowser object after __init__, before the with statement
\* calls __enter__: no driver, no monitor, no browser known to run.
SessionInit ==
    /\ \E f \in Flavors, r \in BOOLEAN, m \in 0 .. MaxRestartCap :
          cfg = [flavor |-> f, enable_crash_recovery |-> r, max_restart_attempts |-> m]
    /\ session = [pc |-> "new", _restart_count |-> 0, monitor |-> 0, reattached |-> 0,
                  attaches |-> 0, last_used_writes |-> 0, playwright |-> "none", joined |-> 0]
    /\ monitors = [k \in MonitorIds |-> NewMonitor]
    /\ chrome_pid = 0
    /\ next_pid = 1
    /\ stats = [crashes_detected |-> 0, on_crash_calls |-> 0, restart_attempts |-> 0]

\* __enter__: ensure_browser(self.verbose, profile=self.profile) returns; a
\* browser runs on the debug port
EnterEnsureBrowser ==
    /\ session.pc = "new"
    /\ chrome_pid' = next_pid
    /\ next_pid' = next_pid + 1
    /\ session' = [session EXCEPT !.pc = "ensured"]
    /\ UNCHANGED <<cfg, monitors, stats>>
    /\ UNCHANGED restOfMon

\* __enter__: ensure_browser raises; the exception leaves __enter__, the
\* with statement ends without a call of __exit__
EnterEnsureBrowserRaises ==
    /\ session.pc = "new"
    /\ session' = [session EXCEPT !.pc = "enter_failed"]
    /\ UNCHANGED <<cfg, monitors, chrome_pid, next_pid, stats>>
    /\ UNCHANGED restOfMon

\* __enter__: self.playwright = sync_playwright.start()
StartPlaywright ==
    /\ session.pc = "ensured"
    /\ session' = [session EXCEPT !.pc = "started", !.playwright = "running"]
    /\ UNCHANGED <<cfg, monitors, chrome_pid, next_pid, stats>>
    /\ UNCHANGED restOfMon

\* __enter__: self.browser = connect_with_retry(...) returns, then
\* set_profile saves the profile with its new last_used
EnterConnect ==
    /\ session.pc = "started"
    /\ session' = [session EXCEPT !.pc = "connected", !.attaches = 1,
                                  !.last_used_writes = 1]
    /\ UNCHANGED <<cfg, monitors, chrome_pid, next_pid, stats>>
    /\ UNCHANGED restOfMon

\* __enter__: connect_with_retry raises its ConnectionError; nothing in
\* __enter__ catches it, and the with statement ends without a call of
\* __exit__
EnterConnectRaises ==
    /\ session.pc = "started"
    /\ session' = [session EXCEPT !.pc = "enter_failed"]
    /\ UNCHANGED <<cfg, monitors, chrome_pid, next_pid, stats>>
    /\ UNCHANGED restOfMon

\* __enter__: _start_monitoring() creates the monitor and starts it on the
\* pid of the browser (0 when get_chrome_process finds none); the body of
\* the with statement begins
EnterStartMonitoring ==
    /\ session.pc = "connected"
    /\ monitors' = [monitors EXCEPT ![1] = start_monitoring(NewMonitor, chrome_pid)]
    /\ session' = [session EXCEPT !.pc = "body", !.monitor = 1]
    /\ UNCHANGED <<cfg, chrome_pid, next_pid, stats>>
    /\ UNCHANGED restOfMon

MonNext ==
    \/ BrowserCrash
    \/ \E m \in MonitorIds : LoopTop(m)
    \/ \E m \in MonitorIds : HealthResult(m)
    \/ \E m \in MonitorIds : RestartFails(m)
    \/ \E m \in MonitorIds : RestartSucceeds(m)
    \/ \E m \in MonitorIds : Sleep(m)
    \/ StopMonitoringSync
    \/ JoinThreadEnded
    \/ JoinTimedOut
    \/ StopMonitoringAsync


(***************************************************************************)
(*                  state_manager.py : StateManager                        *)
(*                  browser/finder.py : find_chrome_executable             *)
(***************************************************************************)

CURRENT_VERSION == 1

ProfileNames == {"default", "work"}

\* Paths a browser binary can be at: the candidates find_chrome_executable
\* enumerates, in order (the install directory first, then system locations).
Candidates == <<"cft_install", "google_chrome">>
Paths == {"cft_install", "google_chrome"}

\* What is at a path: nothing, a file without the executable bit, an
\* executable file.
FileKinds == {"absent", "noexec", "exec"}

\* Path.exists()
Exists(fl, p) == fl[p] # "absent"

\* path.exists() and path.is_file() and os.access(path, os.X_OK)
IsExecutableFile(fl, p) == fl[p] = "exec"

NoProfiles == [n \in {} |-> 0]

\* A state dict: version, chrome_path ("none" for None or a missing key),
\* profiles (name -> last_used; has_profiles is FALSE when the key is
\* missing), last_updated.
StateDict(v, cp, hp, pr, lu) ==
    [version |-> v, chrome_path |-> cp, has_profiles |-> hp, profiles |-> pr,
     last_updated |-> lu]

\* _default_profile(): created / last_used = datetime.now()
_default_profile(t) == t

\* _default_state()
_default_state(t) ==
    StateDict(CURRENT_VERSION, "none", TRUE, [n \in {"default"} |-> _default_profile(t)], t)

\* The content of a file: missing, not parseable as JSON, or a JSON state dict.
Missing == [kind |-> "missing", data |-> _default_state(0)]
Corrupt == [kind |-> "corrupt", data |-> _default_state(0)]
Json(d) == [kind |-> "json", data |-> d]

\* Two more contents: bytes that are not UTF-8 text, and a JSON document
\* that is no object (a list, a string, null)
OtherContent(kind) == [kind |-> kind, data |-> _default_state(0)]

\* load_state(): the exception that leaves it, "none" when it returns.
\* `except (OSError, json.JSONDecodeError)` covers a file that cannot be
\* opened and text that is not JSON; the read of bytes that are not UTF-8
\* raises UnicodeDecodeError and `state.get` on a value that is no dict
\* raises AttributeError, and neither is caught.
load_state_error(f) ==
    CASE f.kind = "not_utf8" -> "UnicodeDecodeError"
      [] f.kind = "json_list" -> "AttributeError"
      [] OTHER -> "none"

\* _migrate_state(state)
_migrate_state(d, t) ==
    LET d1 == IF d.version < 1 /\ ~d.has_profiles
              THEN [d EXCEPT !.has_profiles = TRUE,
                             !.profiles = [n \in {"default"} |-> _default_profile(t)]]
              ELSE d
    IN [d1 EXCEPT !.version = CURRENT_VERSION]

\* load_state(): the default state when the file is missing or does not
\* parse, else the file's dict, migrated when its version is behind.
load_state(f, t) ==
    IF f.kind # "json" THEN _default_state(t)
    ELSE IF f.data.version < CURRENT_VERSION THEN _migrate_state(f.data, t)
    ELSE f.data

\* state.get("profiles", {})
ProfilesOf(d) == IF d.has_profiles THEN d.profiles ELSE NoProfiles

\* profiles[name] = data; state["profiles"] = profiles
WithProfile(d, name, data) ==
    [d EXCEPT !.has_profiles = TRUE,
              !.profiles = [n \in (DOMAIN ProfilesOf(d)) \cup {name} |->
                               IF n = name THEN data ELSE ProfilesOf(d)[n]]]

\* del profiles[name]; state["profiles"] = profiles
WithoutProfile(d, name) ==
    [d EXCEPT !.has_profiles = TRUE,
              !.profiles = [n \in (DOMAIN ProfilesOf(d)) \ {name} |-> ProfilesOf(d)[n]]]

\* save_state(state), the metadata update: version and last_updated
Stamped(d, t) == [d EXCEPT !.version = CURRENT_VERSION, !.last_updated = t]

\* A mutant of FirstWrite: json.dump straight into browser_state.json
FirstWriteInPlace(sf, tf, content) == [state |-> content, tmp |-> tf]

\* save_state, `with open(temp_file, "w") ... json.dump(state, f)`: the files
\* after the dump
FirstWrite(sf, tf, content) == [state |-> sf, tmp |-> content]

\* save_state, `temp_file.replace(self.state_file)`: the files after the rename
Replace(sf, tf) == [state |-> tf, tmp |-> Missing]

\* save_state(state) run to its end: the files after the dump and the rename
save_state(sf, tf, d, t) ==
    LET w == FirstWrite(sf, tf, Json(Stamped(d, t)))
    IN Replace(w.state, w.tmp)

\* get_chrome_path(): the cached path, when the state holds one and it exists
get_chrome_path(f, fl, t) ==
    LET cp == load_state(f, t).chrome_path
    IN IF cp # "none" /\ Exists(fl, cp) THEN cp ELSE "none"

\* A mutant of CachedState: the found path is not put into the state
CachedStateUnchanged(f, path, t) == load_state(f, t)

\* set_chrome_path(path) up to its save_state: state["chrome_path"] = str(path)
CachedState(f, path, t) == [load_state(f, t) EXCEPT !.chrome_path = path]

\* The first candidate, in order, that exists, is a regular file and is
\* executable; "none" when there is none.
RECURSIVE SearchFrom(_, _)
SearchFrom(fl, i) ==
    IF i > Len(Candidates) THEN "none"
    ELSE IF IsExecutableFile(fl, Candidates[i]) THEN Candidates[i]
    ELSE SearchFrom(fl, i + 1)

\* find_chrome_executable(use_cache): the path returned ("none" for None),
\* whether the candidate paths were enumerated, and the state that
\* _cache_chrome_path saves (write is FALSE when nothing is saved).
find_chrome_executable(f, fl, use_cache, t) ==
    LET cached == IF use_cache THEN get_chrome_path(f, fl, t) ELSE "none"
        found == SearchFrom(fl, 1)
    IN IF cached # "none" /\ Exists(fl, cached)
       THEN [path |-> cached, searched |-> FALSE, write |-> FALSE,
             state |-> load_state(f, t)]
       ELSE [path |-> found, searched |-> TRUE, write |-> found # "none",
             state |-> CachedState(f, found, t)]

\* The client of the StateManager: pc is "idle", or "tmp_written" between the
\* dump into the temporary file and the rename; last describes the operation
\* in progress or just ended; before is browser_state.json as it was when
\* that operation began; prev_find is the path the operation before it
\* returned if that was a successful find_chrome_executable, prev_existed
\* whether that path exists as this operation begins, prev_failed whether
\* that find's save_state raised; write_failed tells that save_state raised
\* in this operation, interrupted that the process died inside it;
\* found_kind is what was at the path a find returned when it returned it.
NoOp == [op |-> "none", arg |-> "none", result |-> "none", use_cache |-> FALSE,
         searched |-> FALSE, prev_find |-> "none", prev_existed |-> FALSE,
         prev_failed |-> FALSE, interrupted |-> FALSE, write_failed |-> FALSE,
         found_kind |-> "absent"]

StoreIdle ==
    /\ state_file = Missing
    /\ tmp_file = Missing
    /\ files = [p \in Paths |-> "absent"]
    /\ now = 0
    /\ store = [pc |-> "idle", last |-> NoOp, before |-> Missing]

\* The state files a run can start from: none, an unparseable one, one that
\* is not UTF-8 text, one that holds a JSON list, a version 0
\* file with or without a profile map, a file of the current version or of a
\* later one (with a cached path or not, with the default profile or without).
InitialStateFiles ==
    {Missing, Corrupt, OtherContent("not_utf8"), OtherContent("json_list")}
    \cup {Json(StateDict(0, cp, FALSE, NoProfiles, 0)) : cp \in {"none", "google_chrome"}}
    \cup {Json(StateDict(v, cp, TRUE, [n \in ns |-> 0], 0)) :
            v \in {0, CURRENT_VERSION, CURRENT_VERSION + 1}, cp \in {"none", "google_chrome"},
            ns \in {{"default"}, {"work"}, {"default", "work"}}}

StoreInit ==
    /\ state_file \in InitialStateFiles
    /\ tmp_file = Missing
    /\ files \in [Paths -> {"absent", "exec"}]
    /\ now = 0
    /\ store = [pc |-> "idle", last |-> NoOp, before |-> Missing]

\* The path of the operation just ended, when that was a find that returned one
JustFound ==
    IF store.last.op = "find" /\ ~store.last.interrupted THEN store.last.result ELSE "none"

Began(op, arg, result) ==
    [NoOp EXCEPT !.op = op, !.arg = arg, !.result = result]

\* An operation that ends without saving
EndsWithoutSave(last) ==
    /\ store' = [pc |-> "idle", last |-> last, before |-> state_file]
    /\ UNCHANGED <<state_file, tmp_file, files, now>>

\* save_state raised (`except OSError ... raise BrowserManagerError`): the
\* profile operations let the error through, _cache_chrome_path logs it and
\* find_chrome_executable returns the path all the same.
Raised(last) ==
    IF last.op = "find"
    THEN [last EXCEPT !.write_failed = TRUE]
    ELSE [last EXCEPT !.write_failed = TRUE, !.result = "BrowserManagerError"]

\* An operation that reaches save_state(d): the clock ticks and the metadata
\* is set; then either the state is dumped into the temporary file, the
\* rename being the next step, or open(temp_file, "w") fails.
BeginsSave(last, d) ==
    /\ now < MaxClock
    /\ now' = now + 1
    /\ \/ /\ LET w == FirstWrite(state_file, tmp_file, Json(Stamped(d, now'))) IN
                /\ state_file' = w.state
                /\ tmp_file' = w.tmp
          /\ store' = [pc |-> "tmp_written", last |-> last, before |-> state_file]
       \/ /\ store' = [pc |-> "idle", last |-> Raised(last), before |-> state_file]
          /\ UNCHANGED <<state_file, tmp_file>>
    /\ UNCHANGED files

\* save_state: temp_file.replace(self.state_file); the operation returns
SaveRename ==
    /\ store.pc = "tmp_written"
    /\ LET r == Replace(state_file, tmp_file) IN
          /\ state_file' = r.state
          /\ tmp_file' = r.tmp
    /\ store' = [store EXCEPT !.pc = "idle"]
    /\ UNCHANGED <<files, now>>
    /\ UNCHANGED restOfStore

\* save_state: temp_file.replace(self.state_file) fails with OSError
SaveRenameFails ==
    /\ store.pc = "tmp_written"
    /\ store' = [store EXCEPT !.pc = "idle", !.last = Raised(store.last)]
    /\ UNCHANGED <<state_file, tmp_file, files, now>>
    /\ UNCHANGED restOfStore

\* The process is killed after the dump and before the rename; a later
\* process starts from the files as they are.
SaveInterrupted ==
    /\ store.pc = "tmp_written"
    /\ store' = [store EXCEPT !.pc = "idle", !.last.interrupted = TRUE]
    /\ UNCHANGED <<state_file, tmp_file, files, now>>
    /\ UNCHANGED restOfStore

\* load_state(), called by itself
LoadState ==
    /\ store.pc = "idle"
    /\ EndsWithoutSave(Began("load_state", "none",
                              IF load_state_error(state_file) = "none" THEN "returned"
                              ELSE load_state_error(state_file)))
    /\ UNCHANGED restOfStore

\* get_profile, set_profile, delete_profile (of a profile other than
\* "default"): `state = self.load_state()` raises and the operation lets the
\* error through
ProfileOperationRaises(op, name) ==
    /\ store.pc = "idle"
    /\ load_state_error(state_file) # "none"
    /\ op = "delete_profile" => ~(name = "default")
    /\ EndsWithoutSave(Began(op, name, load_state_error(state_file)))
    /\ UNCHANGED restOfStore

\* get_profile(name)
GetProfile(name) ==
    /\ store.pc = "idle"
    /\ load_state_error(state_file) = "none"
    /\ LET d == load_state(state_file, now) IN
       IF name \notin DOMAIN ProfilesOf(d)
       THEN BeginsSave(Began("get_profile", name, "created"),
                       WithProfile(d, name, _default_profile(now)))
       ELSE EndsWithoutSave(Began("get_profile", name, "found"))
    /\ UNCHANGED restOfStore

\* set_profile(name, profile_data), with last_used = datetime.now() as the
\* sessions call it
SetProfile(name) ==
    /\ store.pc = "idle"
    /\ load_state_error(state_file) = "none"
    /\ BeginsSave(Began("set_profile", name, "saved"),
                  WithProfile(load_state(state_file, now), name, now))
    /\ UNCHANGED restOfStore

\* delete_profile: `if name == "default": raise`
DeleteRefused(name) == name = "default"

\* delete_profile(name)
DeleteProfile(name) ==
    /\ store.pc = "idle"
    /\ DeleteRefused(name) \/ load_state_error(state_file) = "none"
    /\ IF DeleteRefused(name)
       THEN EndsWithoutSave(Began("delete_profile", name, "BrowserManagerError"))
       ELSE LET d == load_state(state_file, now) IN
            IF name \in DOMAIN ProfilesOf(d)
            THEN BeginsSave(Began("delete_profile", name, "deleted"), WithoutProfile(d, name))
            ELSE EndsWithoutSave(Began("delete_profile", name, "not_found"))
    /\ UNCHANGED restOfStore

\* clear_state(): unlink the state file when it exists
ClearState ==
    /\ store.pc = "idle"
    /\ state_file' = Missing
    /\ store' = [pc |-> "idle", last |-> Began("clear_state", "none", "none"),
                 before |-> state_file]
    /\ UNCHANGED <<tmp_file, files, now>>
    /\ UNCHANGED restOfStore

\* find_chrome_executable(logger, use_cache). When load_state raises, the
\* cache lookup's `except Exception` makes the call search, and
\* _cache_chrome_path's `except Exception` drops the failed write.
FindChromeExecutable(use_cache) ==
    /\ store.pc = "idle"
    /\ LET r == find_chrome_executable(state_file, files, use_cache, now)
           last == [Began("find", "none", r.path) EXCEPT
                       !.use_cache = use_cache,
                       !.searched = r.searched,
                       !.found_kind = IF r.path = "none" THEN "absent" ELSE files[r.path],
                       !.prev_find = JustFound,
                       !.prev_failed = JustFound # "none" /\ store.last.write_failed,
                       !.prev_existed = JustFound # "none" /\ Exists(files, JustFound)]
       IN IF ~r.write THEN EndsWithoutSave(last)
          ELSE IF load_state_error(state_file) = "none" THEN BeginsSave(last, r.state)
          ELSE EndsWithoutSave(Raised(last))
    /\ UNCHANGED restOfStore

\* The environment: a binary is removed, or put in place (an install, an
\* uninstall, a disk clean-up), between two operations.
FileChanges(p, k) ==
    /\ store.pc = "idle"
    /\ files[p] # k
    /\ files' = [files EXCEPT ![p] = k]
    /\ UNCHANGED <<state_file, tmp_file, now, store>>
    /\ UNCHANGED restOfStore

StoreNext ==
    \/ LoadState
    \/ \E op \in {"get_profile", "set_profile", "delete_profile"}, name \in ProfileNames :
          ProfileOperationRaises(op, name)
    \/ SaveRename
    \/ SaveRenameFails
    \/ SaveInterrupted
    \/ \E name \in ProfileNames : GetProfile(name)
    \/ \E name \in ProfileNames : SetProfile(name)
    \/ \E name \in ProfileNames : DeleteProfile(name)
    \/ ClearState
    \/ \E use_cache \in BOOLEAN : FindChromeExecutable(use_cache)
    \/ \E p \in Paths, k \in FileKinds : FileChanges(p, k)


(***************************************************************************)
(*        browser/process.py, browser/launcher.py, browser_manager.py      *)
(***************************************************************************)

\* config.browser.debug_port
DebugPort == 9222

\* Ports other browsers run with: one whose flag contains the flag of
\* DebugPort as a substring, one whose flag does not.
ForeignPorts == {92220, 9333}

\* A process: whether its name holds "helper" or "crashpad", whether its
\* executable is a Chrome for Testing build ("cft") or another Chrome
\* ("plain"), the port of its --remote-debugging-port flag (0: no flag), its
\* --user-data-dir (a profile's directory, or "foreign"), whether it runs, whether it accepts connections on its port.
Process(helper, exe, port, dir, listening) ==
    [helper |-> helper, exe |-> exe, port |-> port, data_dir |-> dir,
     alive |-> TRUE, listening |-> listening]

\* The process tables a first call can find, in pid order. The processes
\* that can be running before the first call: a Chrome for Testing browser
\* started by hand, one of its helpers, a browser left by an earlier session
\* on a profile, another Chrome on the debug port, a Chrome for Testing
\* browser on a foreign port.
InitialTables ==
    LET StrayBrowser == Process(FALSE, "cft", 0, "foreign", FALSE)
        HelperProcess == Process(TRUE, "cft", 0, "foreign", FALSE)
        SessionBrowser(profile) == Process(FALSE, "cft", DebugPort, profile, FALSE)
        PlainChrome == Process(FALSE, "plain", DebugPort, "foreign", TRUE)
        ForeignBrowser(q) == Process(FALSE, "cft", q, "foreign", TRUE)
    IN {<<>>, <<StrayBrowser>>, <<StrayBrowser, StrayBrowser>>,
        <<HelperProcess, StrayBrowser>>, <<PlainChrome>>}
       \cup {<<SessionBrowser(d)>> : d \in ProfileNames}
       \cup {<<ForeignBrowser(q)>> : q \in ForeignPorts}
       \cup {<<ForeignBrowser(q), StrayBrowser>> : q \in ForeignPorts}
       \cup {<<StrayBrowser, ForeignBrowser(q)>> : q \in ForeignPorts}

\* f"--remote-debugging-port={port}" in arg, for arg the flag of port q: the
\* decimal digits of port begin those of q
RECURSIVE FlagMatches(_, _)
FlagMatches(port, q) ==
    IF q = 0 THEN FALSE
    ELSE IF q = port THEN TRUE
    ELSE FlagMatches(port, q \div 10)

\* "chrome" in proc_name and no helper in proc_name
IsMainChrome(p) == ~p.helper

\* is_chrome_for_testing, from the path of the executable
is_chrome_for_testing(p) == p.exe = "cft"

\* The test get_chrome_process makes on one process; port 0 stands for None
ProcessMatches(p, port) ==
    /\ p.alive
    /\ IsMainChrome(p)
    /\ is_chrome_for_testing(p)
    /\ (port = 0 \/ FlagMatches(port, p.port))

\* get_chrome_process(port): the first process, in the order of
\* psutil.process_iter (by pid), that passes the test; 0 for None
get_chrome_process(ps, port) ==
    LET found == {i \in DOMAIN ps : ProcessMatches(ps[i], port)}
    IN IF found = {} THEN 0 ELSE CHOOSE i \in found : \A j \in found : i <= j

\* launch_chrome: "chrome for testing" in browser_str or "chrome-" in browser_str
LauncherAccepts(path) == path = "cft_install"

\* The record of an ensure_browser call. existing is what the lookup on the
\* debug port gave, stray is the process handed to kill_chrome_process,
\* signals what was sent to it, waited the seconds spent in the current wait
\* of kill_chrome_process, kill how kill_chrome_process ended ("returned" or
\* "ProcessKillError"), launched the process of the last Popen. ret_* describe the process that get_chrome_process(port)
\* gave when the call returned: its pid, its --user-data-dir, whether its
\* port accepted connections at that moment. The at_start fields are the
\* process table as the call found it; alive_at_launch collects the
\* flag-less browsers of at_start that ran while a Popen was made.
NoCall ==
    [pc |-> "idle", profile |-> "default", max_retries |-> 0, attempt |-> 0,
     browser_path |-> "none", existing |-> 0, stray |-> 0, signals |-> <<>>,
     waited |-> 0, kill |-> "none", launched |-> 0,
     installs |-> 0, launches |-> 0, launches_before_dead |-> 0,
     launch_error |-> "none",
     result |-> "none", ret_pid |-> 0, ret_dir |-> "none", ret_proc_dir |-> "none",
     ret_listening |-> FALSE, calls |-> 0,
     prev_ok |-> FALSE, prev_profile |-> "default", prev_pid |-> 0,
     prev_alive |-> FALSE, flagged_at_start |-> FALSE, strays_at_start |-> {},
     alive_at_launch |-> {}]

EnsIdle ==
    /\ procs = <<>>
    /\ ens = NoCall
    /\ other = NoCall

EnsInit ==
    /\ procs \in InitialTables
    /\ ens = NoCall
    /\ other = NoCall
    /\ state_file = Missing
    /\ tmp_file = Missing
    /\ files \in {[p \in Paths |-> "absent"],
                  [p \in Paths |-> IF p = "cft_install" THEN "exec" ELSE "absent"],
                  [p \in Paths |-> IF p = "google_chrome" THEN "exec" ELSE "absent"]}
    /\ now = 0
    /\ store = [pc |-> "idle", last |-> NoOp, before |-> Missing]

\* The call returns (browser_path, profile directory); pid is the process
\* get_chrome_process(debug_port) gave.
Returned(e, path, pid) ==
    [e EXCEPT !.pc = "idle", !.result = "ok", !.browser_path = path,
              !.ret_pid = pid, !.ret_dir = e.profile,
              !.ret_proc_dir = procs[pid].data_dir,
              !.ret_listening = procs[pid].listening]

\* The call raises
Failed(e, kind) == [e EXCEPT !.pc = "idle", !.result = kind]

\* find_chrome_executable(logger) inside ensure_browser: the state file after
\* it, the write of _cache_chrome_path done or failed
CacheWritten(r) ==
    \/ /\ r.write
       /\ LET w == save_state(state_file, tmp_file, r.state, now) IN
             /\ state_file' = w.state
             /\ tmp_file' = w.tmp
    \/ UNCHANGED <<state_file, tmp_file>>

\* The flag-less Chrome for Testing browsers that run
Strays(ps) == {i \in DOMAIN ps : ProcessMatches(ps[i], 0) /\ ps[i].port = 0}

\* Some browser that runs has a --remote-debugging-port flag
Flagged(ps) == \E i \in DOMAIN ps : ps[i].alive /\ ~ps[i].helper /\ ps[i].port # 0


\* A mutant of ExistingChrome: the browser on the debug port is not looked for
ExistingChromeIgnored(ps) == 0

\* ensure_browser: existing_chrome = get_chrome_process(debug_port)
ExistingChrome(ps) == get_chrome_process(ps, DebugPort)

\* A mutant of KillTarget: no browser is looked for
KillTargetNone(ps) == 0

\* ensure_browser: proc = get_chrome_process()
KillTarget(ps) == get_chrome_process(ps, 0)

\* ensure_browser(max_retries, profile), up to its first branch: the lookup of
\* a browser on the debug port, which ends the call when there is one, and the
\* lookup of any Chrome for Testing browser, which is to be killed.
EnsureBrowser(profile, max_retries) ==
    /\ ens.pc = "idle"
    /\ ens.calls < MaxCalls
    /\ LET existing_chrome == ExistingChrome(procs)
           proc == KillTarget(procs)
           e == [NoCall EXCEPT
                    !.profile = profile, !.max_retries = max_retries,
                    !.existing = existing_chrome,
                    !.calls = ens.calls + 1,
                    !.prev_ok = ens.result = "ok",
                    !.prev_profile = ens.profile,
                    !.prev_pid = ens.ret_pid,
                    !.prev_alive = ens.ret_pid # 0 /\ procs[ens.ret_pid].alive,
                    !.flagged_at_start = Flagged(procs),
                    !.strays_at_start = Strays(procs)]
       IN IF existing_chrome # 0
          THEN LET r == find_chrome_executable(state_file, files, TRUE, now) IN
               /\ CacheWritten(r)
               /\ ens' = IF r.path = "none"
                         THEN Failed(e, "BrowserManagerError")
                         ELSE Returned(e, r.path, existing_chrome)
          ELSE /\ ens' = IF proc # 0
                         THEN [e EXCEPT !.pc = "killing", !.stray = proc]
                         ELSE [e EXCEPT !.pc = "find"]
               /\ UNCHANGED <<state_file, tmp_file>>
    /\ UNCHANGED <<procs, files, now, store>>
    /\ UNCHANGED restOfEns

\* kill_chrome_process(proc, timeout=10): ensure_browser passes no timeout
KillTimeout == 10

\* A mutant of GraceWait: no wait between the two signals
GraceWaitNone(timeout) == 0

\* kill_chrome_process: proc.wait(timeout=timeout // 2)
GraceWait(timeout) == timeout \div 2

\* proc.is_running()
is_running(ps, pid) == ps[pid].alive

\* The wait that kill_chrome_process is in lasts at most this long
WaitLimit(e) == IF e.pc = "term_wait" THEN GraceWait(KillTimeout) ELSE KillTimeout

\* kill_chrome_process: proc.terminate(). The signal is sent, or the process
\* is gone already (NoSuchProcess: the kill is over), or the signal is
\* refused (AccessDenied: ProcessKillError, which ensure_browser raises as
\* BrowserManagerError).
Terminate ==
    /\ ens.pc = "killing"
    /\ \/ /\ is_running(procs, ens.stray)
          /\ ens' = [ens EXCEPT !.pc = "term_wait", !.signals = Append(@, "TERM"),
                                !.waited = 0]
       \/ /\ ~is_running(procs, ens.stray)
          /\ ens' = [ens EXCEPT !.pc = "find", !.kill = "returned"]
       \/ /\ is_running(procs, ens.stray)
          /\ ens' = [Failed(ens, "BrowserManagerError") EXCEPT !.kill = "ProcessKillError"]
    /\ UNCHANGED <<procs, storeVars>>
    /\ UNCHANGED restOfEns

\* kill_chrome_process: time passes inside proc.wait(timeout // 2), or inside
\* the loop `while proc.is_running() and (time.time() - start_time) < timeout`
WaitGoesOn ==
    /\ ens.pc \in {"term_wait", "kill_wait"}
    /\ ens.waited < WaitLimit(ens)
    /\ ens' = [ens EXCEPT !.waited = IF @ + WaitStep > WaitLimit(ens)
                                      THEN WaitLimit(ens) ELSE @ + WaitStep]
    /\ UNCHANGED <<procs, storeVars>>
    /\ UNCHANGED restOfEns

\* kill_chrome_process: proc.wait returns, the process ended; or it times
\* out and `if proc.is_running()` is false. The function returns.
TerminatedGracefully ==
    /\ ens.pc = "term_wait"
    /\ ~is_running(procs, ens.stray)
    /\ ens' = [ens EXCEPT !.pc = "find", !.kill = "returned"]
    /\ UNCHANGED <<procs, storeVars>>
    /\ UNCHANGED restOfEns

\* kill_chrome_process: proc.wait times out; `if proc.is_running(): proc.kill()`
\* and start_time is taken
GraceExpired ==
    /\ ens.pc = "term_wait"
    /\ ens.waited >= WaitLimit(ens)
    /\ is_running(procs, ens.stray)
    /\ ens' = [ens EXCEPT !.pc = "kill_wait", !.signals = Append(@, "KILL"),
                          !.waited = 0]
    /\ UNCHANGED <<procs, storeVars>>
    /\ UNCHANGED restOfEns

\* kill_chrome_process: the loop on is_running() ends, the process ended
Killed ==
    /\ ens.pc = "kill_wait"
    /\ ~is_running(procs, ens.stray)
    /\ ens' = [ens EXCEPT !.pc = "find", !.kill = "returned"]
    /\ UNCHANGED <<procs, storeVars>>
    /\ UNCHANGED restOfEns

\* kill_chrome_process: the process still runs after timeout: ProcessKillError
KillTimedOut ==
    /\ ens.pc = "kill_wait"
    /\ ens.waited >= WaitLimit(ens)
    /\ is_running(procs, ens.stray)
    /\ ens' = [Failed(ens, "BrowserManagerError") EXCEPT !.kill = "ProcessKillError"]
    /\ UNCHANGED <<procs, storeVars>>
    /\ UNCHANGED restOfEns

\* A mutant of NeedsInstall: the launch is tried whatever the search gave
NeedsInstallNever(path) == FALSE

\* ensure_browser: `if not browser_path:`
NeedsInstall(path) == path = "none"

\* ensure_browser: browser_path = find_chrome_executable(logger)
FindExecutable ==
    /\ ens.pc = "find"
    /\ LET r == find_chrome_executable(state_file, files, TRUE, now) IN
          /\ CacheWritten(r)
          /\ ens' = IF NeedsInstall(r.path)
                    THEN [ens EXCEPT !.pc = "install"]
                    ELSE [ens EXCEPT !.pc = "launch", !.browser_path = r.path]
    /\ UNCHANGED <<procs, files, now, store>>
    /\ UNCHANGED restOfEns

\* install_from_lkgv(logger, max_retries) succeeds within its attempts and
\* the second find_chrome_executable finds the installed binary
InstallSucceeds ==
    /\ ens.pc = "install"
    /\ ens.max_retries > 0
    /\ files' = [files EXCEPT !["cft_install"] = "exec"]
    /\ LET r == find_chrome_executable(state_file, files', TRUE, now) IN
          /\ CacheWritten(r)
          /\ ens' = [ens EXCEPT !.pc = "launch", !.browser_path = r.path,
                                !.installs = @ + 1]
    /\ UNCHANGED <<procs, now, store>>
    /\ UNCHANGED restOfEns

\* install_from_lkgv raises after its attempts (none when max_retries is 0),
\* or returns with no executable in place: BrowserInstallationError
InstallFails ==
    /\ ens.pc = "install"
    /\ ens' = [Failed(ens, "BrowserInstallationError") EXCEPT !.installs = @ + 1]
    /\ UNCHANGED <<procs, storeVars>>
    /\ UNCHANGED restOfEns

\* launch_chrome_with_retry: `for attempt in range(max_retries)` is over
LaunchAttemptsExhausted ==
    /\ ens.pc = "launch"
    /\ ens.attempt >= ens.max_retries
    /\ ens' = Failed(ens, "BrowserLaunchError")
    /\ UNCHANGED <<procs, storeVars>>
    /\ UNCHANGED restOfEns

\* launch_chrome refuses a path that is not of a Chrome for Testing build
LaunchRefused ==
    /\ ens.pc = "launch"
    /\ ens.attempt < ens.max_retries
    /\ ~LauncherAccepts(ens.browser_path)
    /\ ens' = [ens EXCEPT !.attempt = @ + 1, !.launch_error = "BrowserLaunchError"]
    /\ UNCHANGED <<procs, storeVars>>
    /\ UNCHANGED restOfEns

\* launch_chrome: subprocess.Popen(command), with the port and the profile's
\* directory as flags
Popen ==
    /\ ens.pc = "launch"
    /\ ens.attempt < ens.max_retries
    /\ LauncherAccepts(ens.browser_path)
    /\ procs' = Append(procs, Process(FALSE, "cft", DebugPort, ens.profile, FALSE))
    /\ ens' = [ens EXCEPT
                 !.pc = "popened", !.launched = Len(procs) + 1,
                 !.launches = @ + 1,
                 !.launches_before_dead =
                     IF ens.stray # 0 /\ procs[ens.stray].alive THEN @ + 1 ELSE @,
                 !.alive_at_launch =
                     @ \cup {i \in ens.strays_at_start : procs[i].alive}]
    /\ UNCHANGED storeVars
    /\ UNCHANGED restOfEns

\* launch_chrome: process.poll() gives a return code after the sleep
ExitedImmediately ==
    /\ ens.pc = "popened"
    /\ ~procs[ens.launched].alive
    /\ ens' = [ens EXCEPT !.pc = "launch", !.attempt = @ + 1,
                          !.launch_error = "BrowserLaunchError"]
    /\ UNCHANGED <<procs, storeVars>>
    /\ UNCHANGED restOfEns

\* launch_chrome: process.poll() is None; wait_for_process_start begins
StillRunning ==
    /\ ens.pc = "popened"
    /\ procs[ens.launched].alive
    /\ ens' = [ens EXCEPT !.pc = "waiting"]
    /\ UNCHANGED <<procs, storeVars>>
    /\ UNCHANGED restOfEns

\* wait_for_process_start: get_chrome_process(port) gives a process, which
\* launch_chrome and launch_chrome_with_retry return; ensure_browser returns
ProcessStarted ==
    /\ ens.pc = "waiting"
    /\ get_chrome_process(procs, DebugPort) # 0
    /\ ens' = Returned(ens, ens.browser_path, get_chrome_process(procs, DebugPort))
    /\ UNCHANGED <<procs, storeVars>>
    /\ UNCHANGED restOfEns

\* wait_for_process_start: no process until the timeout, TimeoutError.
\* launch_chrome, in its `except TimeoutError as e`: terminate() and
\* wait(timeout=5) if the process it started still runs (a launched process
\* that runs is found by get_chrome_process, so here it has ended), with
\* TimeoutExpired and OSError passed over; then
\* `raise BrowserLaunchError(...) from e`.
StartTimedOut ==
    /\ ens.pc = "waiting"
    /\ get_chrome_process(procs, DebugPort) = 0
    /\ procs' = [procs EXCEPT ![ens.launched].alive = FALSE,
                              ![ens.launched].listening = FALSE]
    /\ ens' = [ens EXCEPT !.pc = "launch", !.attempt = @ + 1,
                          !.launch_error = "BrowserLaunchError from TimeoutError"]
    /\ UNCHANGED storeVars
    /\ UNCHANGED restOfEns

\* The environment: a process ends (by itself, by its user, by the signal
\* it was sent)
ProcessExits(pid) ==
    /\ procs[pid].alive
    /\ procs' = [procs EXCEPT ![pid].alive = FALSE, ![pid].listening = FALSE]
    /\ UNCHANGED <<ens, storeVars>>
    /\ UNCHANGED restOfEns

\* The environment: a browser started with a port flag begins to accept
\* connections on it, if no other process holds the port
PortOpens(pid) ==
    /\ procs[pid].alive
    /\ procs[pid].port # 0
    /\ ~procs[pid].listening
    /\ \A i \in DOMAIN procs :
          ~(procs[i].alive /\ procs[i].listening /\ procs[i].port = procs[pid].port)
    /\ procs' = [procs EXCEPT ![pid].listening = TRUE]
    /\ UNCHANGED <<ens, storeVars>>
    /\ UNCHANGED restOfEns

EnsNext ==
    \/ \E profile \in ProfileNames, max_retries \in 0 .. MaxLaunchRetries :
          EnsureBrowser(profile, max_retries)
    \/ Terminate
    \/ WaitGoesOn
    \/ TerminatedGracefully
    \/ GraceExpired
    \/ Killed
    \/ KillTimedOut
    \/ FindExecutable
    \/ InstallSucceeds
    \/ InstallFails
    \/ LaunchAttemptsExhausted
    \/ LaunchRefused
    \/ Popen
    \/ ExitedImmediately
    \/ StillRunning
    \/ ProcessStarted
    \/ StartTimedOut
    \/ \E pid \in DOMAIN procs : ProcessExits(pid)
    \/ \E pid \in DOMAIN procs : PortOpens(pid)

(***************************************************************************)
(* Two sessions that call ensure_browser at the same time.  Each session   *)
(* is its own operating system process and runs the steps of ensure_browser *)
(* above; nothing in ensure_browser, launch_chrome or get_chrome_process   *)
(* takes a lock.  ens is the caller whose step comes next, other the one   *)
(* that waits; the process table, the files and the state file are shared. *)
(***************************************************************************)

\* No browser runs, and the binary is installed or not
ConcInit ==
    /\ EnsInit
    /\ procs = <<>>

\* The scheduler lets the other session run
Switch ==
    /\ ens' = other
    /\ other' = ens
    /\ UNCHANGED <<procs, storeVars>>
    /\ UNCHANGED <<conn, monVars, poll, sideVars>>

\* A browser started by launch_chrome on a --user-data-dir that a running
\* browser holds: the new process hands over to the running one
SecondInstance(ps, pid) ==
    /\ ps[pid].alive
    /\ ~ps[pid].helper
    /\ \E j \in DOMAIN ps :
          /\ j < pid
          /\ ps[j].alive
          /\ ~ps[j].helper
          /\ ps[j].exe = ps[pid].exe
          /\ ps[j].data_dir = ps[pid].data_dir

\* The environment: a second instance ends
SecondInstanceExits(pid) ==
    /\ SecondInstance(procs, pid)
    /\ procs' = [procs EXCEPT ![pid].alive = FALSE, ![pid].listening = FALSE]
    /\ UNCHANGED <<ens, storeVars>>
    /\ UNCHANGED restOfEns

\* The steps of the two sessions. No browser runs at the start and the
\* environment is friendly: a process ends only as a second instance. The
\* steps of kill_chrome_process and the timeout of wait_for_process_start
\* need a process that ends otherwise and are left out.
ConcNext ==
    \/ \E profile \in ProfileNames, max_retries \in 0 .. MaxLaunchRetries :
          EnsureBrowser(profile, max_retries)
    \/ FindExecutable
    \/ InstallSucceeds
    \/ InstallFails
    \/ LaunchAttemptsExhausted
    \/ LaunchRefused
    \/ Popen
    \/ ExitedImmediately
    \/ StillRunning
    \/ ProcessStarted
    \/ Switch
    \/ \E pid \in DOMAIN procs : SecondInstanceExits(pid)
    \/ \E pid \in DOMAIN procs : PortOpens(pid)

(***************************************************************************)
(*          state_manager.py : save_state calls that overlap               *)
(***************************************************************************)

\* What one save_state call dumps: DocChunks pieces, each marked with the
\* call it comes from (0: the call that wrote the file before the run)
Document(w) == [k \in 1 .. DocChunks |-> <<w, k>>]

\* f.write at position pos of a file whose content is c: the bytes at pos
\* are replaced; a position beyond the end leaves a hole before it
WriteAt(c, pos, piece) ==
    [k \in 1 .. (IF pos > Len(c) THEN pos ELSE Len(c)) |->
        IF k = pos THEN piece ELSE IF k <= Len(c) THEN c[k] ELSE "hole"]

\* No save_state call runs: the names browser_state.json and
\* browser_state.tmp lead to no inode, there is no inode
NoSaves ==
    [state |-> 0, tmp |-> 0, inodes |-> <<>>,
     w |-> [i \in 1 .. NumWriters |-> [pc |-> "idle", fd |-> 0, off |-> 0, result |-> "none"]]]

\* The state file does not exist yet, or holds what an earlier save wrote
SavesInit ==
    \/ saves = NoSaves
    \/ saves = [NoSaves EXCEPT !.state = 1, !.inodes = <<Document(0)>>]

\* save_state: temp_file = self.state_file.with_suffix(".tmp") and
\* open(temp_file, "w"): every caller gets the same name; the file behind it
\* is truncated when it exists and created when it does not
OpenTemp(i) ==
    /\ saves.w[i].pc = "idle"
    /\ LET ino == IF saves.tmp # 0 THEN saves.tmp ELSE Len(saves.inodes) + 1 IN
       saves' = [saves EXCEPT
                    !.tmp = ino,
                    !.inodes = IF saves.tmp # 0 THEN [@ EXCEPT ![ino] = <<>>]
                               ELSE Append(@, <<>>),
                    !.w[i] = [pc |-> "writing", fd |-> ino, off |-> 0, result |-> "none"]]
    /\ UNCHANGED <<restOfSide, instance, install>>

\* save_state: json.dump(state, f), one write() of the open file that
\* reaches the operating system (the last one at the end of the with block)
WriteChunk(i) ==
    /\ saves.w[i].pc = "writing"
    /\ saves.w[i].off < DocChunks
    /\ LET pos == saves.w[i].off + 1 IN
       saves' = [saves EXCEPT
                    !.inodes[saves.w[i].fd] = WriteAt(@, pos, <<i, pos>>),
                    !.w[i].off = pos]
    /\ UNCHANGED <<restOfSide, instance, install>>

\* save_state: temp_file.replace(self.state_file). The name of the state
\* file now leads to the inode the temporary name led to, whoever wrote it;
\* with no temporary name left the rename fails with FileNotFoundError, an
\* OSError, and save_state raises BrowserManagerError.
ReplaceTemp(i) ==
    /\ saves.w[i].pc = "writing"
    /\ saves.w[i].off = DocChunks
    /\ saves' = IF saves.tmp # 0
                THEN [saves EXCEPT !.state = saves.tmp, !.tmp = 0,
                                   !.w[i].pc = "done", !.w[i].result = "saved"]
                ELSE [saves EXCEPT !.w[i].pc = "done",
                                   !.w[i].result = "BrowserManagerError"]
    /\ UNCHANGED <<restOfSide, instance, install>>

SavesNext ==
    \E i \in 1 .. NumWriters : OpenTemp(i) \/ WriteChunk(i) \/ ReplaceTemp(i)

(***************************************************************************)
(*     monitoring.py : start_monitoring and stop_monitoring of one object  *)
(***************************************************************************)

\* BrowserMonitor.__init__ / AsyncBrowserMonitor.__init__: not monitoring, no
\* thread or task. loops holds the position of every _monitor_loop the
\* object has started: "test" (at `while self._monitoring`), "check" (in
\* _perform_health_check), "sleep", "ended"; last is how the owner's last
\* call went.
NoInstance ==
    [flavor |-> "sync", _monitoring |-> FALSE, _monitor_thread |-> 0, loops |-> <<>>,
     caller |-> "idle", last |-> "none"]

InstanceInit == \E f \in Flavors : instance = [NoInstance EXCEPT !.flavor = f]

\* start_monitoring(browser_pid): `if self._monitoring: return`; else the
\* flag is set and a new thread (threading.Thread(...).start()) or task
\* (asyncio.create_task) runs _monitor_loop
StartMonitoringCall ==
    /\ instance.caller = "idle"
    /\ IF instance._monitoring
       THEN instance' = [instance EXCEPT !.last = "already_active"]
       ELSE /\ Len(instance.loops) < MaxThreads
            /\ instance' = [instance EXCEPT
                               !._monitoring = TRUE,
                               !.loops = Append(@, "test"),
                               !._monitor_thread = Len(instance.loops) + 1,
                               !.last = "started"]
    /\ UNCHANGED <<restOfSide, saves, install>>

\* stop_monitoring(): `if not self._monitoring: return`; else the flag is
\* cleared; the sync object goes into self._monitor_thread.join(timeout=5.0);
\* the async object cancels its task and awaits it, and the task ends at the
\* await it is suspended in (`except asyncio.CancelledError: break`)
StopMonitoringCall ==
    /\ instance.caller = "idle"
    /\ instance' =
          IF ~instance._monitoring THEN [instance EXCEPT !.last = "not_monitoring"]
          ELSE IF instance.flavor = "sync"
          THEN [instance EXCEPT !._monitoring = FALSE, !.caller = "joining"]
          ELSE [instance EXCEPT !._monitoring = FALSE,
                                !.loops[instance._monitor_thread] = "ended",
                                !.last = "stopped"]
    /\ UNCHANGED <<restOfSide, saves, install>>

\* stop_monitoring: join(timeout=5.0) returns, because the thread has ended
\* or because five seconds have passed with the thread inside a health check
\* or inside time.sleep(check_interval), 30 seconds by default (a thread at
\* the loop test takes its step well within the five seconds); join tells
\* neither apart and stop_monitoring does not look
JoinReturns ==
    /\ instance.caller = "joining"
    /\ instance.loops[instance._monitor_thread] # "test"
    /\ instance' = [instance EXCEPT
                       !.caller = "idle",
                       !.last = IF instance.loops[instance._monitor_thread] = "ended"
                                THEN "stopped" ELSE "join_timed_out"]
    /\ UNCHANGED <<restOfSide, saves, install>>

\* _monitor_loop, one step of thread or task t: the test of
\* `while self._monitoring`, the health check, the sleep
MonitorLoopStep(t) ==
    /\ instance.loops[t] # "ended"
    /\ instance' = [instance EXCEPT !.loops[t] =
                       CASE @ = "test" -> IF instance._monitoring THEN "check" ELSE "ended"
                         [] @ = "check" -> "sleep"
                         [] OTHER -> "test"]
    /\ UNCHANGED <<restOfSide, saves, install>>

InstanceNext ==
    \/ StartMonitoringCall
    \/ StopMonitoringCall
    \/ JoinReturns
    \/ \E t \in DOMAIN instance.loops : MonitorLoopStep(t)

(***************************************************************************)
(*                 browser/installer.py : install_from_lkgv                *)
(***************************************************************************)

\* No install_from_lkgv call yet. zip is chrome.zip in the install
\* directory: "absent", "partial" (a download that was cut) or "complete";
\* error is the class of the exception the attempt raised and cause what
\* raised it.
NoInstall ==
    [pc |-> "idle", max_retries |-> 0, attempt |-> 0, zip |-> "absent",
     error |-> "none", cause |-> "none", result |-> "none", calls |-> 0]

\* install_from_lkgv(logger, max_retries): `for attempt in range(max_retries)`
\* begins, or is over at once and the function raises
InstallFromLkgv(max_retries) ==
    /\ install.pc = "idle"
    /\ install.calls < MaxCalls
    /\ install' = [NoInstall EXCEPT
                      !.pc = IF max_retries = 0 THEN "idle" ELSE "fetch",
                      !.result = IF max_retries = 0 THEN "BrowserInstallationError" ELSE "none",
                      !.max_retries = max_retries, !.zip = install.zip,
                      !.calls = install.calls + 1]
    /\ UNCHANGED <<restOfSide, saves, instance>>

\* _fetch_lkgv_data and the lookup of the platform's URL: the request fails
\* (NetworkError), the manifest lacks a required key or holds no URL for the
\* platform (BrowserInstallationError), or the URL is there
FetchManifest(outcome) ==
    /\ install.pc = "fetch"
    /\ install' =
          IF outcome = "ok" THEN [install EXCEPT !.pc = "download"]
          ELSE [install EXCEPT
                   !.pc = "failed", !.cause = outcome,
                   !.error = IF outcome = "request" THEN "NetworkError"
                             ELSE "BrowserInstallationError"]
    /\ UNCHANGED <<restOfSide, saves, instance>>

\* _download_with_progress(url, zip_path): the request is refused before
\* open(dest_path, "wb"); or the file is opened (and truncated) and the
\* stream breaks after some chunks; or all chunks are written
DownloadArchive(outcome) ==
    /\ install.pc = "download"
    /\ install' =
          CASE outcome = "ok" -> [install EXCEPT !.pc = "extract", !.zip = "complete"]
            [] outcome = "refused" ->
                 [install EXCEPT !.pc = "failed", !.cause = "download",
                                 !.error = "NetworkError"]
            [] OTHER ->
                 [install EXCEPT !.pc = "failed", !.cause = "download",
                                 !.error = "NetworkError", !.zip = "partial"]
    /\ UNCHANGED <<restOfSide, saves, instance>>

\* _extract_archive(zip_path, install_path): unpack_archive, then
\* archive_path.unlink() and install_from_lkgv returns; a failure of the
\* unpacking raises BrowserInstallationError before the unlink
ExtractArchive(ok) ==
    /\ install.pc = "extract"
    /\ install' =
          IF ok THEN [install EXCEPT !.pc = "idle", !.zip = "absent", !.result = "ok"]
          ELSE [install EXCEPT !.pc = "failed", !.cause = "extract",
                               !.error = "BrowserInstallationError"]
    /\ UNCHANGED <<restOfSide, saves, instance>>

\* install_from_lkgv, `except (NetworkError, BrowserInstallationError)`:
\* before the last attempt chrome.zip is unlinked and the next attempt follows
\* the sleep; at the last attempt the error is logged, the loop is over and
\* the function raises BrowserInstallationError
AttemptFailed ==
    /\ install.pc = "failed"
    /\ install' =
          IF install.attempt < install.max_retries - 1
          THEN [install EXCEPT !.pc = "fetch", !.attempt = @ + 1, !.zip = "absent"]
          ELSE [install EXCEPT !.pc = "idle", !.result = "BrowserInstallationError"]
    /\ UNCHANGED <<restOfSide, saves, instance>>

InstallNext ==
    \/ \E max_retries \in 0 .. MaxLaunchRetries : InstallFromLkgv(max_retries)
    \/ \E outcome \in {"ok", "request", "schema", "no_url"} : FetchManifest(outcome)
    \/ \E outcome \in {"ok", "refused", "cut"} : DownloadArchive(outcome)
    \/ \E ok \in BOOLEAN : ExtractArchive(ok)
    \/ AttemptFailed

SideIdle == saves = NoSaves /\ instance = NoInstance /\ install = NoInstall

(***************************************************************************)
(* The specifications: one per subsystem, the others idle.                 *)
(***************************************************************************)
InitConnect == ConnInit /\ MonIdle /\ StoreIdle /\ EnsIdle /\ poll = NoPoll /\ SideIdle
SpecConnect == InitConnect /\ [][ConnNext]_vars

InitMonitor == MonInit /\ conn = ConnIdle /\ StoreIdle /\ EnsIdle /\ poll = NoPoll /\ SideIdle
SpecMonitor == InitMonitor /\ [][MonNext]_vars

\* A whole with statement: __enter__ step by step, then the body with the
\* monitor running, then __exit__.
SessionNext ==
    \/ EnterEnsureBrowser
    \/ EnterEnsureBrowserRaises
    \/ StartPlaywright
    \/ EnterConnect
    \/ EnterConnectRaises
    \/ EnterStartMonitoring
    \/ MonNext

InitSession == SessionInit /\ conn = ConnIdle /\ StoreIdle /\ EnsIdle /\ poll = NoPoll /\ SideIdle
SpecSession == InitSession /\ [][SessionNext]_vars

InitStore == StoreInit /\ conn = ConnIdle /\ MonIdle /\ EnsIdle /\ poll = NoPoll /\ SideIdle
SpecStore == InitStore /\ [][StoreNext]_vars

InitEnsure == EnsInit /\ conn = ConnIdle /\ MonIdle /\ poll = NoPoll /\ SideIdle
SpecEnsure == InitEnsure /\ [][EnsNext]_vars

InitConcurrent == ConcInit /\ conn = ConnIdle /\ MonIdle /\ poll = NoPoll /\ SideIdle
SpecConcurrent == InitConcurrent /\ [][ConcNext]_vars

\* The steps of ensure_browser that the caller's own thread takes once the
\* call it is in has returned: every step but the call itself and the moves
\* of the environment.
EnsProgram ==
    \/ Terminate
    \/ WaitGoesOn
    \/ TerminatedGracefully
    \/ GraceExpired
    \/ Killed
    \/ KillTimedOut
    \/ FindExecutable
    \/ InstallSucceeds
    \/ InstallFails
    \/ LaunchAttemptsExhausted
    \/ LaunchRefused
    \/ Popen
    \/ ExitedImmediately
    \/ StillRunning
    \/ ProcessStarted
    \/ StartTimedOut

\* One operation per run: a connect_with_retry call, a session with its
\* monitor and its stop_monitoring, one ensure_browser call with its kill and
\* its launches, or one polling wait; the environment moves as it likes.
TermNext ==
    \/ ConnNext
    \/ MonNext
    \/ PollNext
    \/ /\ conn = ConnIdle /\ session.monitor = 0 /\ poll = NoPoll
       /\ ens.calls = 0
       /\ \E profile \in ProfileNames, max_retries \in 0 .. MaxLaunchRetries :
             EnsureBrowser(profile, max_retries)
    \/ EnsProgram
    \/ \E pid \in DOMAIN procs : ProcessExits(pid)
    \/ \E pid \in DOMAIN procs : PortOpens(pid)

InitTerminate ==
    \/ InitConnect
    \/ InitMonitor
    \/ InitEnsure
    \/ PollInit /\ conn = ConnIdle /\ MonIdle /\ StoreIdle /\ EnsIdle /\ SideIdle

\* Every single external call returns, and a thread that can take a step
\* takes one: the caller of connect_with_retry, of ensure_browser or of a
\* polling wait (one of the three runs), each monitor thread at its loop
\* test, and the join inside stop_monitoring.  Nothing is asked of the
\* environment.
SpecTerminate ==
    /\ InitTerminate
    /\ [][TermNext]_vars
    /\ WF_vars(ConnNext \/ EnsProgram \/ PollNext)
    /\ \A m \in MonitorIds : WF_vars(LoopTop(m))
    /\ WF_vars(JoinThreadEnded \/ JoinTimedOut)

RestIdle == conn = ConnIdle /\ MonIdle /\ StoreIdle /\ EnsIdle /\ poll = NoPoll

InitSaves == SavesInit /\ RestIdle /\ instance = NoInstance /\ install = NoInstall
SpecSaves == InitSaves /\ [][SavesNext]_vars

InitInstance == InstanceInit /\ RestIdle /\ saves = NoSaves /\ install = NoInstall

InitInstall == install = NoInstall /\ RestIdle /\ saves = NoSaves /\ instance = NoInstance
SpecInstall == InitInstall /\ [][InstallNext]_vars
SpecInstance == InitInstance /\ [][InstanceNext]_vars

(***************************************************************************)
(* Claims about connect_with_retry                                         *)
(***************************************************************************)

AllUnhealthy(c) == \A i \in 1 .. Len(c.health_log) : c.health_log[i] # "ok"

\* C1: when every health check of a call reports the port unreachable, the
\* call ends only by raising ConnectionError, after exactly max_retries + 1
\* attempts (one health check each) and without ever calling connect_over_cdp;
\* until then it has made at most max_retries + 1 health checks.
C1_UnreachableMakesAllAttempts ==
    AllUnhealthy(conn) =>
        /\ Len(conn.attach_log) = 0
        /\ Len(conn.health_log) <= conn.max_retries + 1
        /\ conn.pc # "returned"
        /\ conn.pc = "raised" =>
              /\ Len(conn.health_log) = conn.max_retries + 1
              /\ conn.last_error.kind = "ConnectionError"
        /\ conn.pc = "loop" => Len(conn.health_log) = conn.attempt

\* C1 witness: a call with retries that ended in ConnectionError after only
\* unhealthy checks.
C1_Witness ==
    /\ conn.pc = "raised"
    /\ conn.max_retries >= 2
    /\ Len(conn.health_log) = conn.max_retries + 1
    /\ AllUnhealthy(conn)

(***************************************************************************)
(* Claims about crash monitoring and recovery                              *)
(***************************************************************************)

C3_StopMeansLoopFinished ==
    \A m \in MonitorIds :
        monitors[m].stop_returned => monitors[m].loop = "finished"

(***************************************************************************)
(* StateManager and find_chrome_executable                                 *)
(***************************************************************************)

\* C8: delete_profile("default") fails with ProfileError and leaves the
\* state file (profile map, cached path, version) as it was.
C8_DeleteDefaultFailsWithProfileError ==
    (store.last.op = "delete_profile" /\ store.last.arg = "default")
        => (store.last.result = "ProfileError" /\ state_file = store.before)

\* C9: when save_state is interrupted after the temporary file is written and
\* before the rename, the state file is what it was before the operation, and
\* the next load_state returns what it would have returned from that file.
C9_InterruptedSaveKeepsState ==
    store.last.interrupted
        => /\ state_file = store.before
           /\ load_state(state_file, now) = load_state(store.before, now)

C9_Witness ==
    /\ store.last.interrupted
    /\ store.pc = "idle"
    /\ state_file.kind = "json"
    /\ tmp_file.kind = "json"
    /\ tmp_file # state_file

\* The find just ended returned a path
FindSucceeded ==
    /\ store.pc = "idle"
    /\ store.last.op = "find"
    /\ ~store.last.interrupted
    /\ store.last.result # "none"

\* The state file holds the path the find just ended returned
FoundPathStored ==
    /\ state_file.kind = "json"
    /\ state_file.data.chrome_path = store.last.result

\* The find(use_cache=True) follows a find that returned a path: it returns
\* that path without a search if the path still exists, and searches if not.
FollowingFindUsesCache ==
    IF store.last.prev_existed
    THEN store.last.result = store.last.prev_find /\ ~store.last.searched
    ELSE store.last.searched

C4_HandleOnlyAfterPortReachable ==
    (ens.pc = "idle" /\ ens.result = "ok" /\ ens.launches > 0) => ens.ret_listening

\* The call follows a successful call for the same profile whose browser
\* still ran when this call began
FollowsSuccessfulCall ==
    /\ ens.calls >= 2
    /\ ens.prev_ok
    /\ ens.prev_profile = ens.profile
    /\ ens.prev_alive

\* C5: an ensure_browser(profile=P) that follows a successful
\* ensure_browser(profile=P) whose browser is still alive installs nothing,
\* launches nothing, terminates nothing, and the browser on the debug port is
\* the process of the first call.
C5_SecondCallReusesBrowser ==
    FollowsSuccessfulCall
        => /\ ens.pc = "idle"
           /\ ens.installs = 0
           /\ ens.launches = 0
           /\ ens.stray = 0
           /\ ens.signals = <<>>
           /\ ens.existing = ens.prev_pid
           /\ ens.result = "ok" => ens.ret_pid = ens.prev_pid

C5_Witness ==
    /\ FollowsSuccessfulCall
    /\ ens.result = "ok"
    /\ ens.ret_pid = ens.prev_pid
    /\ procs[ens.ret_pid].alive

\* C6: whenever ensure_browser(profile=P) returns, the browser on the debug
\* port runs on the user-data directory returned for P, also when that
\* browser ran before the call.
C6_AttachedBrowserRunsOnProfile ==
    (ens.pc = "idle" /\ ens.result = "ok") => ens.ret_proc_dir = ens.ret_dir

\* The call began with no browser carrying a debug-port flag and a Chrome for
\* Testing browser without the flag running
StrayAndNoFlagAtStart ==
    /\ ens.calls >= 1
    /\ ~ens.flagged_at_start
    /\ ens.strays_at_start # {}

\* What ensure_browser sends to the process it kills: nothing (the process
\* was gone), the graceful signal, or the graceful signal and then the kill
GracefulThenForced == ens.signals \in {<<>>, <<"TERM">>, <<"TERM", "KILL">>}

C11_ReturnedPathIsExecutable ==
    (store.last.op = "find" /\ store.last.result # "none")
        => store.last.found_kind = "exec"

C13_VersionNeverDecreases ==
    (store.before.kind = "json" /\ state_file.kind = "json")
        => state_file.data.version >= store.before.data.version

(***************************************************************************)
(* connect_with_retry, continued                                           *)
(***************************************************************************)

RECURSIVE SumSeq(_)
SumSeq(q) == IF q = <<>> THEN 0 ELSE Head(q) + SumSeq(Tail(q))

FinalCause(c) ==
    LET h == c.health_log[Len(c.health_log)]
    IN IF check_connection_health(h) THEN c.attach_log[Len(c.attach_log)] ELSE h

\* C15: when connect_with_retry has used up its attempts it raises one
\* ConnectionError, and the cause of the final failed attempt is attached to
\* that error.
C15_RaisedErrorWrapsLastCause ==
    (conn.pc = "raised" /\ conn.health_log # <<>>)
        => /\ conn.last_error.kind = "ConnectionError"
           /\ conn.last_error.cause = FinalCause(conn)

(***************************************************************************)
(* ensure_browser, continued                                               *)
(***************************************************************************)

\* C16: in one ensure_browser call that finds no binary, the installation is
\* over and the binary is located again before a launch attempt starts; when
\* the installation fails or the binary is still not found nothing is launched.
C16_InstallBeforeLaunch ==
    /\ ens.pc = "install" => (ens.launches = 0 /\ ens.browser_path = "none")
    /\ ens.pc \in {"launch", "popened", "waiting"}
          => ens.browser_path # "none"
    /\ ens.launches > 0 => ens.browser_path # "none"
    /\ (ens.installs > 0 /\ ens.pc \in {"launch", "popened", "waiting"})
          => ens.browser_path = "cft_install"
    /\ ens.result = "BrowserInstallationError" => ens.launches = 0

C16_Witness ==
    /\ ens.pc = "idle"
    /\ ens.installs > 0
    /\ ens.launches > 0
    /\ ens.result = "ok"


\* C18: once the crash handler of a session has re-run ensure_browser and
\* re-attached, and while the session is open, the session's monitor is
\* monitoring, its loop runs, and it watches the pid of the browser that the
\* handler attached to.
C18_MonitorRearmedOnNewPid ==
    (session.reattached # 0 /\ session.pc = "body")
        => LET mon == monitors[session.monitor] IN
              /\ mon._monitoring
              /\ mon.loop \notin {"unstarted", "finished"}
              /\ mon._browser_pid = session.reattached

\* C19: every successful attach of a session, the one of __enter__ /
\* __aenter__ and each re-attach of the crash handler, comes with a write of
\* the profile's last_used: the session has made as many such writes as
\* attaches.
C19_EveryAttachStampsLastUsed ==
    session.last_used_writes = session.attaches

\* C20: kill_chrome_process sends TERM first and KILL second, at most once
\* each; KILL is sent only when the wait of half the timeout is over and the
\* process still runs; the function returns normally only with the process
\* seen not running; when the loop after KILL has lasted the timeout with
\* the process running, ProcessKillError is raised.
C20_GracefulThenForcedKill ==
    [][/\ ens'.signals \in {<<>>, <<"TERM">>, <<"TERM", "KILL">>}
       /\ ens'.pc = "term_wait" => ens'.signals = <<"TERM">>
       /\ ens'.pc = "kill_wait" => ens'.signals = <<"TERM", "KILL">>
       /\ (ens.signals = <<"TERM">> /\ ens'.signals = <<"TERM", "KILL">>)
             => /\ ens.pc = "term_wait"
                /\ ens.waited = KillTimeout \div 2
                /\ procs[ens.stray].alive
       /\ ens'.kill = "returned" => ~procs'[ens'.stray].alive
       /\ (ens.kill = "none" /\ ens'.kill = "ProcessKillError")
             => procs[ens.stray].alive
       /\ (ens.pc = "kill_wait" /\ ens.waited = KillTimeout
              /\ procs[ens.stray].alive /\ ens' # ens)
             => ens'.kill = "ProcessKillError"]_vars

\* C20 witness: a call whose kill needed both signals and returned normally
C20_Witness ==
    /\ ens.signals = <<"TERM", "KILL">>
    /\ ens.kill = "returned"
    /\ ens.result = "ok"

\* The first calls of the two sessions are over, they were made for the
\* same profile with at least one launch attempt, no installation failed and
\* the only binary is a Chrome for Testing build
BothCallsOver ==
    /\ ens.calls = 1 /\ other.calls = 1
    /\ ens.pc = "idle" /\ other.pc = "idle"
    /\ ens.profile = other.profile
    /\ ens.max_retries > 0 /\ other.max_retries > 0
    /\ ens.result # "BrowserInstallationError"
    /\ other.result # "BrowserInstallationError"
    /\ files["google_chrome"] = "absent"

\* The browsers that run with the flag of the debug port
LiveOnPort == {i \in DOMAIN procs : ProcessMatches(procs[i], DebugPort)}

\* C17: when two sessions have called ensure_browser for the same port and
\* profile with no browser running at the start, and every second instance
\* has ended, both calls have returned normally and exactly one browser runs
\* on the port.
C17_ConcurrentCallsShareOneBrowser ==
    (BothCallsOver /\ \A pid \in DOMAIN procs : ~SecondInstance(procs, pid))
        => /\ ens.result = "ok"
           /\ other.result = "ok"
           /\ Cardinality(LiveOnPort) = 1

\* C24: from the same frame and for the same health outcome and attach
\* outcome, an iteration of connect_with_retry and an iteration of
\* async_connect_with_retry give the same frame: the same checks and attach
\* calls made, the same waits, the same result or error. Both start from the
\* same frame, so they agree on every sequence of outcomes.
C24_SyncAndAsyncAgree ==
    conn.pc = "loop"
        => \A h \in HealthOutcomes, a \in AttachOutcomes :
              connect_with_retry_step(conn, h, a) = async_connect_with_retry_step(conn, h, a)

\* C24 witness: an async call in its loop that has waited and attached before
C24_Witness ==
    /\ conn.pc = "loop"
    /\ conn.flavor = "async"
    /\ Len(conn.sleeps) >= 2
    /\ Len(conn.attach_log) >= 1
    /\ Len(conn.attach_log) < Len(conn.health_log)

\* The error raised when the last attempt of the frame has the health
\* outcome h and, the port being healthy, the attach outcome a
RaisedAfter(c, h, a) ==
    IF c.flavor = "sync" THEN connect_with_retry_step(c, h, a).last_error
    ELSE async_connect_with_retry_step(c, h, a).last_error

\* C29: in the last attempt of a call, an unreachable port and a reachable
\* port with a failed connect_over_cdp never raise the same error.
C29_FinalErrorTellsFailureKinds ==
    (conn.pc = "loop" /\ conn.attempt = conn.max_retries)
        => \A h \in HealthOutcomes \ {"ok"}, a \in AttachOutcomes \ {"ok"} :
              RaisedAfter(conn, h, "ok") # RaisedAfter(conn, "ok", a)

\* The health checks of the call that reported the port reachable
HealthyChecks(c) == {i \in 1 .. Len(c.health_log) : c.health_log[i] = "ok"}

\* C30: connect_over_cdp is called once per health check that reported the
\* port reachable and never else, in the attempt of that check (a wait
\* follows every attempt but the one that ends the call); only the last attach
\* can have succeeded, and when it has the call has returned, right after a
\* healthy check, with no wait after it.
C30_AttachOnlyAfterHealthyCheck ==
    /\ Len(conn.attach_log) = Cardinality(HealthyChecks(conn))
    /\ \A i \in 1 .. Len(conn.attach_log) :
          conn.attach_log[i] = "ok" => (i = Len(conn.attach_log) /\ conn.pc = "returned")
    /\ conn.pc = "returned"
          => /\ conn.health_log # <<>> /\ conn.attach_log # <<>>
             /\ conn.health_log[Len(conn.health_log)] = "ok"
             /\ conn.attach_log[Len(conn.attach_log)] = "ok"
             /\ Len(conn.sleeps) = Len(conn.health_log) - 1
    /\ conn.pc = "loop" => Len(conn.sleeps) = Len(conn.health_log)

\* C30 witness: a call that returned a browser after an unreachable port and
\* a failed attach
C30_Witness ==
    /\ conn.pc = "returned"
    /\ Len(conn.health_log) = 3
    /\ Len(conn.attach_log) = 2

\* A health check of monitor m ends in this step
HealthCheckEnds(m) ==
    /\ monitors[m].loop = "health"
    /\ monitors'[m].loop \in {"sleep", "restarting"}

\* The crash handling of monitor m ran in this step: crash_count went up by
\* one and on_crash was called once
CrashHandled(m) ==
    /\ monitors'[m].crash_count = monitors[m].crash_count + 1
    /\ stats'.on_crash_calls = stats.on_crash_calls + 1

CrashNotHandled(m) ==
    /\ monitors'[m].crash_count = monitors[m].crash_count
    /\ stats'.on_crash_calls = stats.on_crash_calls

C28_DiagnosticsTellReachability ==
    \A m \in MonitorIds :
        LET ans == monitors[m].answer
            d == monitors[m].diagnostics
        IN (ans # RequestFailure("none") /\ ~d.raised)
              => /\ d.cdp_available <=> (ans.answered /\ ans.status = 200 /\ ans.body = "json")
                 /\ (d.error # "none") <=> ~d.cdp_available

\* C22: with monitoring.enable_crash_recovery false the crash handler never
\* goes on to ensure_browser or connect_with_retry, whatever the number of
\* crashes detected: no restart is attempted, no monitor is inside a restart,
\* the session has attached once (in __enter__) and _restart_count is 0.
C22_NoRecoveryWhenDisabled ==
    ~cfg.enable_crash_recovery
        => /\ session._restart_count = 0
           /\ stats.restart_attempts = 0
           /\ session.attaches = 1
           /\ session.reattached = 0
           /\ \A m \in MonitorIds : monitors[m].loop # "restarting"

\* Recovery is off, restarts would be allowed by the cap, and the crash
\* handler has been called for two detected crashes.
C22_Witness ==
    /\ ~cfg.enable_crash_recovery
    /\ cfg.max_restart_attempts > 0
    /\ stats.on_crash_calls >= 2
    /\ stats.crashes_detected >= 2

\* C27: throughout a session _restart_count never decreases and stays within
\* 0 .. max_restart_attempts; a successful restart does not reset it.
C27_RestartCountMonotone ==
    /\ [](session._restart_count \in 0 .. cfg.max_restart_attempts)
    /\ [][session'._restart_count >= session._restart_count]_vars

\* A restart has succeeded (the session attached a second time to the browser
\* it launched) and the count still stands above 0.
C27_Witness ==
    /\ session.attaches = 2
    /\ session.reattached # 0
    /\ session._restart_count >= 1
    /\ cfg.max_restart_attempts >= 2

\* C21: with retry_attempts = 0 each retried operation is still attempted
\* once; for the launch: an ensure_browser call made with max_retries = 0 that
\* ends in the BrowserLaunchError of launch_chrome_with_retry has called
\* launch_chrome exactly once.
C21_OneAttemptWithoutRetries ==
    (ens.pc = "idle" /\ ens.calls > 0 /\ ens.max_retries = 0
        /\ ens.result = "BrowserLaunchError")
        => ens.attempt = 1

\* C23: whenever a with block of a session has ended, by __exit__ after the
\* body or by ensure_browser or connect_with_retry raising inside __enter__,
\* no Playwright driver the session started and no monitor loop of the
\* session is still running.
C23_NothingRunsAfterWith ==
    session.pc \in {"closed", "enter_failed"}
        => /\ session.playwright # "running"
           /\ \A m \in MonitorIds : monitors[m].loop \in {"unstarted", "finished"}

\* The thread of the run is inside one of the waiting operations:
\* connect_with_retry, kill_chrome_process, launch_chrome_with_retry (with
\* wait_for_process_start), the join of stop_monitoring, or the loop of a
\* polling wait.  Each of them is left only by a return or a raise.
InsideWait ==
    \/ conn.pc = "loop"
    \/ ens.pc \in {"killing", "term_wait", "kill_wait"}
    \/ ens.pc \in {"launch", "popened", "waiting"}
    \/ session.pc = "joining"
    \/ poll.pc \in {"test", "probe", "sleep"}

\* C25: when every single external call returns, each of the waiting
\* operations ends: a running connect_with_retry returns or raises,
\* launch_chrome_with_retry (with wait_for_process_start inside) returns or
\* raises, kill_chrome_process returns or raises, the stop_monitoring that
\* joins the monitor thread returns, and the loops of wait_for_process_start
\* and wait_for_cdp_available end.
C25_EveryWaitEnds == InsideWait ~> ~InsideWait

\* wait_for_cdp_available has come to its deadline after probes that found
\* nothing, in a wait of the longest timeout
C25_Witness ==
    /\ poll.pc = "done"
    /\ poll.op = "wait_for_cdp_available"
    /\ poll.result = "False"
    /\ poll.timeout = MaxTimeout
    /\ poll.probes >= 2

\* C39: when a restart attempt of the crash handler fails (ensure_browser or
\* the re-attach raises: the handler returns to the loop with no new attach),
\* _restart_count equals max_restart_attempts afterwards, and from a state
\* where the count stands at the cap no further restart attempt is made and
\* the count stays there.
C39_FailedRestartExhaustsBudget ==
    /\ [][\A m \in MonitorIds :
             (/\ monitors[m].loop = "restarting"
              /\ monitors'[m].loop = "sleep"
              /\ session'.attaches = session.attaches)
                 => session'._restart_count = cfg.max_restart_attempts]_vars
    /\ [][session._restart_count = cfg.max_restart_attempts
             => /\ stats'.restart_attempts = stats.restart_attempts
                /\ session'._restart_count = cfg.max_restart_attempts]_vars

\* The first restart attempt of an AsyncBrowser session with a budget of two
\* has failed: the count stands at the cap after one attempt and no new
\* attach, and a later crash detection has started no restart.
C39_Witness ==
    /\ cfg.flavor = "async"
    /\ cfg.max_restart_attempts >= 2
    /\ stats.restart_attempts = 1
    /\ session.attaches = 1
    /\ session._restart_count = cfg.max_restart_attempts
    /\ stats.on_crash_calls >= 2
    /\ \A m \in MonitorIds : monitors[m].loop # "restarting"

\* C31: when the deadline of the wait in launch_chrome elapses, launch_chrome
\* leaves the process it started not running, raises nothing out of that
\* cleanup, and fails with TimeoutError.
C31_LaunchDeadlineRaisesTimeoutError ==
    [][(ens.pc = "waiting" /\ ens'.pc = "launch")
          => /\ ~procs'[ens.launched].alive
             /\ ens'.attempt = ens.attempt + 1
             /\ ens'.launch_error = "TimeoutError"]_vars

\* C36: the process that a lookup for the debug port gave (ensure_browser's
\* first lookup, or the one that ends the wait for the launched browser)
\* carries the port flag for exactly that port, runs the Chrome for Testing
\* executable and is no helper process.
C36_LookupReturnsExactPort ==
    /\ ens.existing # 0 =>
          /\ procs[ens.existing].port = DebugPort
          /\ procs[ens.existing].exe = "cft"
          /\ ~procs[ens.existing].helper
    /\ ens.ret_pid # 0 =>
          /\ procs[ens.ret_pid].port = DebugPort
          /\ procs[ens.ret_pid].exe = "cft"
          /\ ~procs[ens.ret_pid].helper

\* C37: every process that ensure_browser sent a signal to was started
\* without a debug port flag.
C37_NeverTerminatesPortedProcess ==
    ens.signals # <<>> => procs[ens.stray].port = 0

\* C38: the path that find_chrome_executable gave to ensure_browser passes
\* the build check of launch_chrome, and no call ends with the launcher's
\* refusal of the path while no installation was run.
C38_FoundPathPassesBuildCheck ==
    /\ ens.browser_path # "none" => LauncherAccepts(ens.browser_path)
    /\ ~(/\ ens.pc = "idle"
         /\ ens.result = "BrowserLaunchError"
         /\ ens.launch_error = "BrowserLaunchError"
         /\ ~LauncherAccepts(ens.browser_path)
         /\ ens.installs = 0)

\* C33: a path that the build check refuses ends launch_chrome_with_retry
\* after one attempt.
C33_RefusedPathTriedOnce ==
    [][(/\ ens.pc = "launch"
        /\ ~LauncherAccepts(ens.browser_path)
        /\ ens'.attempt = ens.attempt + 1)
          => ens'.attempt = 1]_vars

\* C35: load_state called by itself returns and raises nothing; when the
\* state file is missing, cannot be read as text or is not a JSON object, what
\* it returns is the default state.
C35_LoadStateNeverRaises ==
    store.last.op = "load_state" =>
        /\ store.last.result = "returned"
        /\ store.before.kind # "json" =>
              load_state(store.before, now) = _default_state(now)

\* C34: while save_state calls overlap, the state file, when it exists,
\* holds the whole document of one call (or of the call before the run):
\* never a part of one, never pieces of two.
C34_StateFileIsOneWholeDocument ==
    saves.state # 0 =>
        \E w \in 0 .. NumWriters : saves.inodes[saves.state] = Document(w)

\* C40: of the loops that one monitor object has started, at most one is
\* inside a health check at any time.
C40_OneLoopChecksHealth ==
    Cardinality({t \in DOMAIN instance.loops : instance.loops[t] = "check"}) <= 1

\* C32: when install_from_lkgv has returned or raised, no partly downloaded
\* chrome.zip is in the install directory.
C32_NoPartialArchiveAfterInstall ==
    (install.pc = "idle" /\ install.result # "none") => install.zip # "partial"

====
